---- MODULE Spec2Model ----
(***************************************************************************)
(* A model of the RESP3 Reader and Writer of github.com/nussjustin/resp3.  *)
(*                                                                         *)
(* The byte source of a Reader is the sequence br of the bytes not yet     *)
(* read; bytes are their ASCII codes.  Every method of the Reader is an    *)
(* operator from the unread input (and SingleReadSizeLimit) to a record    *)
(* holding the input left unread, the error (by the sentinel errors.Is     *)
(* finds in it) and the decoded result; one action per exported method     *)
(* applies it to the state.  int64 values are kept as four 16-bit limbs    *)
(* so that the arithmetic wraps exactly as the machine's does.             *)
(***************************************************************************)
EXTENDS Integers, Sequences, FiniteSets, TLC

VARIABLES
    limit,    \* Reader.SingleReadSizeLimit
    src,      \* every byte the source delivers, read or not
    br,       \* Reader.br: the bytes of the source not yet read
    prev,     \* br as it was when the last call started
    call,     \* the last call: [op |-> name, ...arguments]
    ret,      \* what the last call returned
    out,      \* the Writer's sink: every byte written so far
    stack,    \* the pending loops of a Discard(true) call in progress
    pc,       \* "idle", or "run" while a Discard(true) call is in progress
    hd,       \* how the source was made: the value at its head, what follows
    ownbr,    \* Reader.ownbr: [nil |-> it was never made, bound |-> it is
              \* Reader.br, rest |-> its unread bytes while it is not]
    buf       \* Writer.buf as the method that is running has filled it; <<>>
              \* when none is (every method starts from rw.buf[:0])

vars == <<limit, src, br, prev, call, ret, out, stack, pc, hd, ownbr, buf>>

----------------------------------------------------------------------------
(* Bytes and type tags                                                     *)

CR == 13
LF == 10
Minus == 45
Plus == 43
Question == 63
Colon == 58
Dot == 46
Digit0 == 48
Digit1 == 49
Digit9 == 57
LetterT == 116
LetterF == 102
LetterA == 65

TypeInvalid == 0
TypeArray == 42
TypeAttribute == 124
TypeBigNumber == 40
TypeBoolean == 35
TypeDouble == 44
TypeBlobChunk == 59
TypeBlobError == 33
TypeBlobString == 36
TypeEnd == 46
TypeNumber == 58
TypeMap == 37
TypeNull == 95
TypePush == 62
TypeSet == 126
TypeSimpleError == 45
TypeSimpleString == 43
TypeVerbatimString == 61

AggregateTypes == {TypeArray, TypeAttribute, TypeMap, TypePush, TypeSet}

\* The length of the array types: [255]Type has the indices 0..254
TypesLen == 255

\* types[b]: the kind of a lead byte, TypeInvalid for a byte that is no tag.
types(b) ==
    IF b \in AggregateTypes \cup
        {TypeBigNumber, TypeBoolean, TypeDouble, TypeBlobChunk, TypeBlobError,
         TypeBlobString, TypeEnd, TypeNumber, TypeNull, TypeSimpleError,
         TypeSimpleString, TypeVerbatimString}
    THEN b
    ELSE TypeInvalid

----------------------------------------------------------------------------
(* Errors, by sentinel                                                     *)

Nil == "nil"
\* A run-time panic: the call does not return
Panic == "panic"
EOF == "io.EOF"
ErrUnexpectedEOF == "io.ErrUnexpectedEOF"
ErrBufferFull == "bufio.ErrBufferFull"
ErrSingleReadSizeLimitExceeded == "ErrSingleReadSizeLimitExceeded"
ErrInvalidAggregateTypeLength == "ErrInvalidAggregateTypeLength"
ErrInvalidBigNumber == "ErrInvalidBigNumber"
ErrInvalidBlobLength == "ErrInvalidBlobLength"
ErrInvalidBoolean == "ErrInvalidBoolean"
ErrInvalidDouble == "ErrInvalidDouble"
ErrInvalidNumber == "ErrInvalidNumber"
ErrInvalidSimpleValue == "ErrInvalidSimpleValue"
ErrInvalidType == "ErrInvalidType"
ErrInvalidVerbatimString == "ErrInvalidVerbatimString"
ErrOverflow == "ErrOverflow"
ErrUnexpectedEOL == "ErrUnexpectedEOL"
ErrUnexpectedType == "ErrUnexpectedType"

\* wrapEOF: io.EOF and io.ErrUnexpectedEOF become an error wrapping
\* ErrUnexpectedEOL, every other error is returned as it is.
wrapEOF(err) ==
    IF err # EOF /\ err # ErrUnexpectedEOF THEN err ELSE ErrUnexpectedEOL

----------------------------------------------------------------------------
(* Sequences of bytes                                                      *)

Drop(s, n) == IF n >= Len(s) THEN <<>> ELSE SubSeq(s, n + 1, Len(s))
Take(s, n) == IF n >= Len(s) THEN s ELSE SubSeq(s, 1, n)
IsPrefix(p, s) == Len(p) <= Len(s) /\ SubSeq(s, 1, Len(p)) = p

\* The index of the first b in s, 0 when there is none.
RECURSIVE IndexFrom(_, _, _)
IndexFrom(s, b, i) ==
    IF i > Len(s) THEN 0
    ELSE IF s[i] = b THEN i
    ELSE IndexFrom(s, b, i + 1)

IndexByte(s, b) == IndexFrom(s, b, 1)

----------------------------------------------------------------------------
(* int64: four 16-bit limbs, least significant first, two's complement     *)

LimbBase == 2^16
SignLimb == 2^15

I64Zero == <<0, 0, 0, 0>>
I64(k) == <<k % LimbBase, k \div LimbBase, 0, 0>>   \* 0 <= k < 2^31
MaxInt64 == <<LimbBase - 1, LimbBase - 1, LimbBase - 1, SignLimb - 1>>
MinInt64 == <<0, 0, 0, SignLimb>>

IsNeg(n) == n[4] >= SignLimb

\* n * m + a, wrapped to 64 bits (0 <= m, a < 2^14)
MulAdd(n, m, a) ==
    LET c1 == n[1] * m + a
        c2 == n[2] * m + (c1 \div LimbBase)
        c3 == n[3] * m + (c2 \div LimbBase)
        c4 == n[4] * m + (c3 \div LimbBase)
    IN  <<c1 % LimbBase, c2 % LimbBase, c3 % LimbBase, c4 % LimbBase>>

\* -n, wrapped to 64 bits
Neg(n) ==
    LET c1 == (LimbBase - 1 - n[1]) + 1
        c2 == (LimbBase - 1 - n[2]) + (c1 \div LimbBase)
        c3 == (LimbBase - 1 - n[3]) + (c2 \div LimbBase)
        c4 == (LimbBase - 1 - n[4]) + (c3 \div LimbBase)
    IN  <<c1 % LimbBase, c2 % LimbBase, c3 % LimbBase, c4 % LimbBase>>

\* n - 1, wrapped to 64 bits
Dec(n) ==
    IF n[1] > 0 THEN <<n[1] - 1, n[2], n[3], n[4]>>
    ELSE IF n[2] > 0 THEN <<LimbBase - 1, n[2] - 1, n[3], n[4]>>
    ELSE IF n[3] > 0 THEN <<LimbBase - 1, LimbBase - 1, n[3] - 1, n[4]>>
    ELSE <<LimbBase - 1, LimbBase - 1, LimbBase - 1,
           (n[4] + LimbBase - 1) % LimbBase>>

\* unsigned a < b
ULess(a, b) ==
    \/ a[4] < b[4]
    \/ a[4] = b[4] /\ a[3] < b[3]
    \/ a[4] = b[4] /\ a[3] = b[3] /\ a[2] < b[2]
    \/ a[4] = b[4] /\ a[3] = b[3] /\ a[2] = b[2] /\ a[1] < b[1]

\* signed a < b
Less(a, b) ==
    IF IsNeg(a) # IsNeg(b) THEN IsNeg(a) ELSE ULess(a, b)

\* The value of n as a number of the model when 0 <= n < 2^30, and 2^30 for
\* every larger n: no input of the model is that long and no limit that
\* large, so a length compares with them as n does.
ToLen(n) ==
    IF n[3] = 0 /\ n[4] = 0 /\ n[2] < 2^14
    THEN n[1] + n[2] * LimbBase
    ELSE 2^30

\* n divided by 10 as an unsigned number: quotient and remainder
DivMod10(n) ==
    LET r4 == n[4] % 10
        d3 == r4 * LimbBase + n[3]
        r3 == d3 % 10
        d2 == r3 * LimbBase + n[2]
        r2 == d2 % 10
        d1 == r2 * LimbBase + n[1]
    IN  [q |-> <<d1 \div 10, d2 \div 10, d3 \div 10, n[4] \div 10>>,
         r |-> d1 % 10]

\* strconv.AppendUint(nil, n, 10)
RECURSIVE FormatUint(_)
FormatUint(n) ==
    LET qr == DivMod10(n)
    IN  IF qr.q = I64Zero THEN <<Digit0 + qr.r>>
        ELSE Append(FormatUint(qr.q), Digit0 + qr.r)

\* strconv.AppendInt(nil, n, 10)
FormatInt(n) ==
    IF IsNeg(n) THEN <<Minus>> \o FormatUint(Neg(n)) ELSE FormatUint(n)

----------------------------------------------------------------------------
(* What a call returns: the input left unread, the error, and the result   *)
(* (t: a Type, n: an int64, flag: chunked, last or the boolean read,       *)
(* b: the returned slice, empty for nil).                                  *)

R(rest, err, t, n, flag, b) ==
    [rest |-> rest, err |-> err, t |-> t, n |-> n, flag |-> flag, b |-> b]

Ok(rest) == R(rest, Nil, TypeInvalid, I64Zero, FALSE, <<>>)
Fail(rest, err) == R(rest, err, TypeInvalid, I64Zero, FALSE, <<>>)

\* A local variable of the code: the value v under the name that Body gives it
Bind(v, Body(_)) == Body(v)

----------------------------------------------------------------------------
(* Reader: the primitives                                                  *)

DefaultSingleReadSizeLimit == 33554432

\* The size of the bufio.Reader's buffer: ReadSlice returns at most this
\* many bytes at a time.
BufSize == 16

\* Reader.checkReadSizeLimit: the error for a value of n bytes
checkReadSizeLimitStrict(lim, n) ==
    LET l == IF lim = 0 THEN DefaultSingleReadSizeLimit ELSE lim
    IN  IF l > 0 /\ l <= n THEN ErrSingleReadSizeLimitExceeded ELSE Nil

checkReadSizeLimit(lim, n) ==
    LET l == IF lim = 0 THEN DefaultSingleReadSizeLimit ELSE lim
    IN  IF l > 0 /\ l < n THEN ErrSingleReadSizeLimitExceeded ELSE Nil

\* Reader.match: the next bytes are b (bufio.Reader.Peek consumes nothing)
matchThree(s, b) == IsPrefix(Take(b, 3), s)

match(s, b) == IsPrefix(b, s)

\* Reader.consume: the input left, and whether b was there and is consumed
consume(s, b) ==
    IF match(s, b) THEN [rest |-> Drop(s, Len(b)), ok |-> TRUE]
    ELSE [rest |-> s, ok |-> FALSE]

\* Reader.peek
peek(s) ==
    IF s = <<>> THEN Fail(s, EOF)
    \* types[b[0]] with an index out of range
    ELSE IF s[1] >= TypesLen THEN Fail(s, Panic)
    ELSE IF types(s[1]) # TypeInvalid THEN [Ok(s) EXCEPT !.t = types(s[1])]
    ELSE Fail(s, ErrInvalidType)

\* Reader.expect
expect(s, t) ==
    Bind(peek(s), LAMBDA g :
        IF g.err # Nil THEN Fail(s, wrapEOF(g.err))
        ELSE IF g.t # t THEN Fail(s, ErrUnexpectedType)
        ELSE Ok(Tail(s)))

\* Reader.readEOL
readEOL(s) ==
    IF Len(s) < 2 THEN Fail(s, wrapEOF(EOF))
    ELSE IF s[1] # CR \/ s[2] # LF THEN Fail(s, ErrUnexpectedEOL)
    ELSE Ok(Drop(s, 2))

\* Reader.Peek
PeekOpReading(s) ==
    Bind(peek(s), LAMBDA p :
        IF p.err # Nil THEN p
        ELSE IF /\ p.t \in {TypeArray, TypeBlobString}
                /\ match(s, <<p.t, Minus, Digit1, CR, LF>>)
        THEN [p EXCEPT !.t = TypeNull, !.rest = Tail(s)]
        ELSE [p EXCEPT !.rest = Tail(s)])

PeekOp(s) ==
    Bind(peek(s), LAMBDA p :
        IF p.err # Nil THEN p
        ELSE IF /\ p.t \in {TypeArray, TypeBlobString}
                /\ match(s, <<p.t, Minus, Digit1, CR, LF>>)
        THEN [p EXCEPT !.t = TypeNull]
        ELSE p)

IsDigit(b) == b >= Digit0 /\ b <= Digit9

\* The loop of Reader.readNumber: i bytes read so far, n the value folded.
RECURSIVE readNumberLoop(_, _, _, _)
readNumberLoop(s, i, n, neg) ==
    IF s = <<>>
    THEN [rest |-> s, err |-> wrapEOF(EOF), i |-> i, n |-> n, neg |-> neg]
    ELSE IF s[1] = Minus /\ i = 0
    THEN readNumberLoop(Tail(s), i + 1, n, TRUE)
    ELSE IF IsDigit(s[1])
    THEN LET m == MulAdd(n, 10, s[1] - Digit0)
         IN  IF Less(m, n)
             THEN [rest |-> Tail(s), err |-> ErrOverflow,
                   i |-> i, n |-> n, neg |-> neg]
             ELSE readNumberLoop(Tail(s), i + 1, m, neg)
    ELSE IF s[1] = CR \/ s[1] = LF
    THEN [rest |-> s, err |-> Nil, i |-> i, n |-> n, neg |-> neg]
    ELSE [rest |-> s, err |-> ErrInvalidNumber, i |-> i, n |-> n, neg |-> neg]

\* Reader.readNumber
readNumber(s) ==
    Bind(readNumberLoop(s, 0, I64Zero, FALSE), LAMBDA l :
    Bind(readEOL(l.rest), LAMBDA e :
        IF l.err # Nil THEN Fail(l.rest, l.err)
        ELSE IF e.err # Nil THEN Fail(e.rest, e.err)
        ELSE IF l.i < 1 \/ (l.i = 1 /\ l.neg)
        THEN Fail(e.rest, ErrUnexpectedEOL)
        ELSE [Ok(e.rest) EXCEPT !.n = IF l.neg THEN Neg(l.n) ELSE l.n]))

\* Reader.readBlobBody; n64 is the length read, n its value as a length.
\* make panics for a capacity no slice can have (2^48 bytes and more).
readBlobBody(s, lim, dst, n64) ==
    Bind(ToLen(n64), LAMBDA n :
    Bind(readEOL(Drop(s, n)), LAMBDA e :
        IF checkReadSizeLimit(lim, n) # Nil
        THEN Fail(s, checkReadSizeLimit(lim, n))
        ELSE IF n64[4] > 0 THEN Fail(s, Panic)
        ELSE IF Len(s) < n
        THEN Fail(<<>>, wrapEOF(IF s = <<>> THEN EOF ELSE ErrUnexpectedEOF))
        ELSE IF e.err # Nil THEN Fail(e.rest, e.err)
        ELSE [Ok(e.rest) EXCEPT !.b = dst \o Take(s, n)]))

\* Reader.readBlob
readBlob(s, lim, t, dst) ==
    Bind(expect(s, t), LAMBDA x :
    Bind(readNumber(x.rest), LAMBDA num :
        IF x.err # Nil THEN x
        ELSE IF num.err # Nil THEN Fail(num.rest, num.err)
        ELSE IF IsNeg(num.n) THEN Fail(num.rest, ErrInvalidBlobLength)
        ELSE readBlobBody(num.rest, lim, dst, num.n)))

\* Reader.readChunkableBlob
readChunkableBlob(s, lim, t, dst) ==
    Bind(consume(s, <<t, Question, CR, LF>>), LAMBDA c :
        IF c.ok THEN [Ok(c.rest) EXCEPT !.b = dst, !.flag = TRUE]
        ELSE readBlob(s, lim, t, dst))

\* bufio.Reader.ReadSlice('\n'): the fragment returned and the error
ReadSlice(s) ==
    LET k == IndexByte(Take(s, BufSize), LF)
    IN  IF k > 0 THEN [line |-> Take(s, k), err |-> Nil]
        ELSE IF Len(s) >= BufSize
        THEN [line |-> Take(s, BufSize), err |-> ErrBufferFull]
        ELSE [line |-> s, err |-> EOF]

\* The loop of Reader.readLine: dst grows by one fragment per iteration.
RECURSIVE readLineLoop(_, _, _, _)
readLineLoopEach(s, lim, dst, slen) ==
    Bind(ReadSlice(s), LAMBDA f :
    Bind(Drop(s, Len(f.line)), LAMBDA rest :
    Bind(Len(f.line) - 2, LAMBDA size :
        IF f.err # Nil /\ f.err # ErrBufferFull
        THEN Fail(rest, wrapEOF(f.err))
        ELSE IF checkReadSizeLimit(lim, size) # Nil
        THEN Fail(rest, checkReadSizeLimit(lim, size))
        ELSE IF f.line[Len(f.line)] = LF
        THEN [Ok(rest) EXCEPT !.b = dst \o f.line]
        ELSE readLineLoop(rest, lim, dst \o f.line, slen))))

readLineLoop(s, lim, dst, slen) ==
    Bind(ReadSlice(s), LAMBDA f :
    Bind(Drop(s, Len(f.line)), LAMBDA rest :
    Bind(Len(f.line) - 2 + Len(dst) - slen, LAMBDA size :
        IF f.err # Nil /\ f.err # ErrBufferFull
        THEN Fail(rest, wrapEOF(f.err))
        ELSE IF checkReadSizeLimit(lim, size) # Nil
        THEN Fail(rest, checkReadSizeLimit(lim, size))
        ELSE IF f.line[Len(f.line)] = LF
        THEN [Ok(rest) EXCEPT !.b = dst \o f.line]
        ELSE readLineLoop(rest, lim, dst \o f.line, slen))))

\* Reader.readLine
readLine(s, lim, dst) ==
    Bind(readLineLoop(s, lim, dst, Len(dst)), LAMBDA l :
    Bind(Len(l.b), LAMBDA n :
        IF l.err # Nil THEN l
        ELSE IF n < 2 \/ l.b[n - 1] # CR \/ l.b[n] # LF
        THEN Fail(l.rest, ErrUnexpectedEOL)
        ELSE [l EXCEPT !.b = Take(l.b, n - 2)]))

\* Reader.readSimple
readSimple(s, lim, t, dst) ==
    Bind(expect(s, t), LAMBDA x :
        IF x.err # Nil THEN x ELSE readLine(x.rest, lim, dst))

\* Reader.readAggregateHeader
readAggregateHeader(s, t) ==
    Bind(consume(s, <<t, Question, CR, LF>>), LAMBDA c :
    Bind(expect(s, t), LAMBDA x :
    Bind(readNumber(x.rest), LAMBDA num :
        IF c.ok THEN [Ok(c.rest) EXCEPT !.n = Neg(I64(1)), !.flag = TRUE]
        ELSE IF x.err # Nil THEN x
        ELSE IF IsNeg(num.n) \/ num.err = ErrInvalidNumber
        THEN Fail(num.rest, ErrInvalidAggregateTypeLength)
        ELSE num)))

----------------------------------------------------------------------------
(* Reader: the exported reads                                              *)

\* big.Int.SetString(b, 10) succeeds: an optional sign, then decimal digits
IsBigNumberUnsigned(b) ==
    LET d == IF b # <<>> /\ b[1] = Minus THEN Tail(b) ELSE b
    IN  d # <<>> /\ \A i \in 1..Len(d) : IsDigit(d[i])

IsBigNumber(b) ==
    LET d == IF b # <<>> /\ b[1] \in {Plus, Minus} THEN Tail(b) ELSE b
    IN  d # <<>> /\ \A i \in 1..Len(d) : IsDigit(d[i])

\* The digits d without their leading zeros ("0" for zero)
RECURSIVE StripZeros(_)
StripZeros(d) ==
    IF Len(d) > 1 /\ d[1] = Digit0 THEN StripZeros(Tail(d)) ELSE d

\* big.Int.Append(nil, 10) of the number big.Int.SetString(b, 10) reads:
\* the model's value of a big.Int is its decimal text.
BigText(b) ==
    LET d == StripZeros(IF b[1] \in {Plus, Minus} THEN Tail(b) ELSE b)
    IN  IF b[1] = Minus /\ d # <<Digit0>> THEN <<Minus>> \o d ELSE d

\* Reader.ReadBigNumber
ReadBigNumber(s, lim) ==
    Bind(expect(s, TypeBigNumber), LAMBDA x :
    Bind(readLine(x.rest, lim, <<>>), LAMBDA l :
        IF x.err # Nil THEN x
        ELSE IF l.err # Nil THEN l
        ELSE IF l.b = <<>> THEN Fail(l.rest, ErrUnexpectedEOL)
        ELSE IF ~IsBigNumber(l.b) THEN Fail(l.rest, ErrInvalidBigNumber)
        ELSE [Ok(l.rest) EXCEPT !.b = BigText(l.b)]))

\* Reader.ReadBlobChunk
ReadBlobChunkAfresh(s, lim, dst) ==
    Bind(consume(s, <<TypeBlobChunk, Digit0, CR, LF>>), LAMBDA c :
        IF c.ok THEN [Ok(c.rest) EXCEPT !.flag = TRUE]
        ELSE readBlob(s, lim, TypeBlobChunk, dst))

ReadBlobChunk(s, lim, dst) ==
    Bind(consume(s, <<TypeBlobChunk, Digit0, CR, LF>>), LAMBDA c :
        IF c.ok THEN [Ok(c.rest) EXCEPT !.b = dst, !.flag = TRUE]
        ELSE readBlob(s, lim, TypeBlobChunk, dst))

\* Reader.ReadBlobChunks
RECURSIVE ReadBlobChunks(_, _, _)
ReadBlobChunks(s, lim, dst) ==
    Bind(ReadBlobChunk(s, lim, dst), LAMBDA c :
        IF c.err # Nil THEN Fail(c.rest, c.err)
        ELSE IF c.flag THEN [c EXCEPT !.flag = FALSE]
        ELSE ReadBlobChunks(c.rest, lim, c.b))

\* Reader.ReadBoolean
ReadBoolean(s, lim) ==
    Bind(expect(s, TypeBoolean), LAMBDA x :
    Bind(readLine(x.rest, lim, <<>>), LAMBDA l :
        IF x.err # Nil THEN x
        ELSE IF l.err # Nil THEN l
        ELSE IF l.b = <<>> THEN Fail(l.rest, wrapEOF(ErrUnexpectedEOL))
        ELSE IF Len(l.b) # 1 \/ l.b[1] \notin {LetterT, LetterF}
        THEN Fail(l.rest, ErrInvalidBoolean)
        ELSE [Ok(l.rest) EXCEPT !.flag = (l.b[1] = LetterT)]))

\* b without the case of its letters
Lower(b) == [i \in 1..Len(b) |-> IF b[i] >= 65 /\ b[i] <= 90 THEN b[i] + 32 ELSE b[i]]

\* strconv.ParseFloat(b, 64) succeeds, for b without the letters of an
\* exponent or of a hexadecimal number and without '_': a sign and inf or
\* infinity, nan, or a sign, digits and at most one '.' with a digit on one
\* side of it.
ParseFloatOK(b) ==
    LET u == IF b # <<>> /\ b[1] \in {Plus, Minus} THEN Tail(b) ELSE b
        dot == IndexByte(u, Dot)
        ds == IF dot = 0 THEN u ELSE Take(u, dot - 1) \o Drop(u, dot)
    IN  \/ Lower(u) \in {<<105, 110, 102>>, <<105, 110, 102, 105, 110, 105, 116, 121>>}
        \/ Lower(b) = <<110, 97, 110>>
        \/ ds # <<>> /\ \A i \in 1..Len(ds) : IsDigit(ds[i])

\* Reader.readDouble
readDouble(s, lim) ==
    Bind(readLine(s, lim, <<>>), LAMBDA l :
        IF l.err # Nil THEN l
        ELSE IF l.b = <<>> THEN Fail(l.rest, ErrUnexpectedEOL)
        ELSE IF ~ParseFloatOK(l.b) THEN Fail(l.rest, ErrInvalidDouble)
        ELSE l)

\* Reader.ReadDouble; the value read is kept as its text
ReadDouble(s, lim) ==
    Bind(expect(s, TypeDouble), LAMBDA x :
        IF x.err # Nil THEN x ELSE readDouble(x.rest, lim))

\* Reader.ReadEnd
ReadEnd(s) ==
    Bind(expect(s, TypeEnd), LAMBDA x :
        IF x.err # Nil THEN x ELSE readEOL(x.rest))

\* Reader.ReadNull
ReadNull(s) ==
    Bind(peek(s), LAMBDA ty :
    Bind(consume(s, <<ty.t, Minus, Digit1, CR, LF>>), LAMBDA c :
    Bind(expect(s, TypeNull), LAMBDA x :
        IF ty.err # Nil THEN Fail(s, wrapEOF(ty.err))
        ELSE IF ty.t \in {TypeArray, TypeBlobString} /\ c.ok THEN Ok(c.rest)
        ELSE IF x.err # Nil THEN x
        ELSE readEOL(x.rest))))

\* Reader.ReadNumber
ReadNumber(s) ==
    Bind(expect(s, TypeNumber), LAMBDA x :
        IF x.err # Nil THEN x ELSE readNumber(x.rest))

verbatimPrefixLength == 3

\* Reader.ReadVerbatimString
ReadVerbatimStringWhole(s, lim, dst) ==
    Bind(readBlob(s, lim, TypeVerbatimString, dst), LAMBDA r :
        IF r.err # Nil THEN Fail(r.rest, r.err)
        ELSE IF \/ Len(r.b) < verbatimPrefixLength + 1
                \/ r.b[verbatimPrefixLength + 1] # Colon
        THEN Fail(r.rest, ErrInvalidVerbatimString)
        ELSE r)

ReadVerbatimString(s, lim, dst) ==
    Bind(readBlob(s, lim, TypeVerbatimString, dst), LAMBDA r :
    Bind(Drop(r.b, Len(dst)), LAMBDA bs :
        IF r.err # Nil THEN Fail(r.rest, r.err)
        ELSE IF \/ Len(bs) < verbatimPrefixLength + 1
                \/ bs[verbatimPrefixLength + 1] # Colon
        THEN Fail(r.rest, ErrInvalidVerbatimString)
        ELSE r))

----------------------------------------------------------------------------
(* Reader: Discard                                                         *)

RECURSIVE DiscardOp(_, _, _)
RECURSIVE discardN(_, _, _)
RECURSIVE discardAggregateChunks(_, _)

\* Reader.discardAggregate
discardAggregate(s, lim, t, nested) ==
    Bind(readAggregateHeader(s, t), LAMBDA h :
    Bind(IF t \in {TypeAttribute, TypeMap} THEN MulAdd(h.n, 2, 0) ELSE h.n, LAMBDA n :
        IF ~nested \/ h.err # Nil THEN h
        ELSE IF h.flag THEN discardAggregateChunks(h.rest, lim)
        ELSE discardN(h.rest, lim, n)))

\* Reader.discardAggregateChunks
discardAggregateChunks(s, lim) ==
    Bind(DiscardOp(s, lim, TRUE), LAMBDA d :
        IF d.t = TypeEnd \/ d.err # Nil THEN d
        ELSE discardAggregateChunks(d.rest, lim))

\* Reader.discardBlobChunks
discardBlobChunks(s, lim) == ReadBlobChunks(s, lim, <<>>)

\* Reader.discardBlobChunk
discardBlobChunk(s, lim) == ReadBlobChunk(s, lim, <<>>)

\* Reader.discardBlob
discardBlobWhole(s, lim, t, nested) ==
    Bind(consume(s, <<t, Question, CR, LF>>), LAMBDA c :
        IF c.ok THEN discardBlobChunks(c.rest, lim)
        ELSE readBlob(s, lim, t, <<>>))

discardBlob(s, lim, t, nested) ==
    Bind(consume(s, <<t, Question, CR, LF>>), LAMBDA c :
        IF c.ok
        THEN IF ~nested THEN Ok(c.rest) ELSE discardBlobChunks(c.rest, lim)
        ELSE readBlob(s, lim, t, <<>>))

\* Reader.discardN
discardN(s, lim, n) ==
    Bind(DiscardOp(s, lim, TRUE), LAMBDA d :
        IF ~Less(I64Zero, n) THEN Ok(s)
        ELSE IF d.err # Nil THEN d
        ELSE discardN(d.rest, lim, Dec(n)))

\* Reader.discardSimple
discardSimple(s, lim, t) == readSimple(s, lim, t, <<>>)

\* The switch of Reader.Discard on the type t that Peek returned
discardSwitch(s, lim, t, nested) ==
    CASE t \in AggregateTypes -> discardAggregate(s, lim, t, nested)
      [] t \in {TypeBlobError, TypeBlobString} -> discardBlob(s, lim, t, nested)
      [] t = TypeBlobChunk ->
            IF nested THEN discardBlobChunks(s, lim) ELSE discardBlobChunk(s, lim)
      [] t \in {TypeSimpleError, TypeSimpleString} -> discardSimple(s, lim, t)
      [] t = TypeBigNumber -> ReadBigNumber(s, lim)
      [] t = TypeBoolean -> ReadBoolean(s, lim)
      [] t = TypeDouble -> ReadDouble(s, lim)
      [] t = TypeEnd -> ReadEnd(s)
      [] t = TypeNumber -> ReadNumber(s)
      [] t = TypeNull -> ReadNull(s)
      [] t = TypeVerbatimString -> ReadVerbatimString(s, lim, <<>>)
      [] OTHER -> Ok(s)

\* Reader.Discard
DiscardOp(s, lim, nested) ==
    Bind(PeekOp(s), LAMBDA p :
    Bind(discardSwitch(s, lim, p.t, nested), LAMBDA d :
        IF p.err # Nil THEN Fail(s, p.err)
        ELSE IF d.err # Nil THEN Fail(d.rest, wrapEOF(d.err))
        ELSE [Ok(d.rest) EXCEPT !.t = p.t]))

----------------------------------------------------------------------------
(* Writer: what a call writes to the sink, and the error it returns        *)

CRLF == <<CR, LF>>
Wrote(w) == [w |-> w, err |-> Nil]
Refused(err) == [w |-> <<>>, err |-> err]

\* Writer.writeNumber
writeNumber(t, n) == Wrote(<<t>> \o FormatInt(n) \o CRLF)

\* Writer.writeAggregateHeader
writeAggregateHeaderSentinel(t, n) ==
    IF n = Neg(I64(1)) THEN Wrote(<<t, Question, CR, LF>>)
    ELSE IF IsNeg(n) THEN Refused(ErrInvalidAggregateTypeLength)
    ELSE writeNumber(t, n)

writeAggregateHeader(t, n) ==
    IF IsNeg(n) THEN Refused(ErrInvalidAggregateTypeLength)
    ELSE writeNumber(t, n)

\* Writer.writeAggregateStreamHeader
writeAggregateStreamHeader(t) == Wrote(<<t, Question, CR, LF>>)

\* Writer.writeBlobStreamHeader
writeBlobStreamHeader(t) == Wrote(<<t, Question, CR, LF>>)

\* Writer.writeBlob
writeBlob(t, s) ==
    Wrote(<<t>> \o FormatUint(I64(Len(s))) \o CRLF \o s \o CRLF)

\* Writer.writeSimple
writeSimpleLate(t, s) ==
    [w |-> <<t>> \o s \o CRLF,
     err |-> IF \E i \in 1..Len(s) : s[i] \in {CR, LF}
             THEN ErrInvalidSimpleValue ELSE Nil]

writeSimple(t, s) ==
    IF \E i \in 1..Len(s) : s[i] \in {CR, LF}
    THEN Refused(ErrInvalidSimpleValue)
    ELSE Wrote(<<t>> \o s \o CRLF)

\* Writer.WriteBigNumber; n is the decimal text of the big.Int
WriteBigNumber(n) == Wrote(<<TypeBigNumber>> \o n \o CRLF)

\* Writer.WriteBlobChunk
WriteBlobChunk(s) ==
    IF Len(s) = 0 THEN Wrote(<<TypeBlobChunk, Digit0, CR, LF>>)
    ELSE writeBlob(TypeBlobChunk, s)

\* Writer.WriteBoolean
WriteBoolean(b) ==
    Wrote(<<TypeBoolean, IF b THEN LetterT ELSE LetterF, CR, LF>>)

\* Writer.WriteEnd
WriteEnd == Wrote(<<TypeEnd, CR, LF>>)

\* Writer.WriteNull
WriteNull == Wrote(<<TypeNull, CR, LF>>)

\* Writer.WriteNumber
WriteNumber(n) == writeNumber(TypeNumber, n)

\* Writer.WriteVerbatimString
WriteVerbatimString(p, s) ==
    IF Len(p) # verbatimPrefixLength THEN Refused(ErrInvalidVerbatimString)
    ELSE Wrote(<<TypeVerbatimString>> \o FormatInt(I64(Len(p) + 1 + Len(s)))
               \o CRLF \o p \o <<Colon>> \o s \o CRLF)

----------------------------------------------------------------------------
(* The sources: a well-formed value as the Writer (or a RESP2 peer) sends  *)
(* it, followed by more bytes or cut short                                 *)

MaxPayload == 2
MaxElems == 2

\* A value w whose kind is t, whose first item is read by op and is hl bytes
V(w, t, op, hl) == [w |-> w, t |-> t, op |-> op, hl |-> hl]
Item(w, t, op) == V(w, t, op, Len(w))

HeaderOp(t) ==
    CASE t = TypeArray -> "ReadArrayHeader"
      [] t = TypeAttribute -> "ReadAttributeHeader"
      [] t = TypeMap -> "ReadMapHeader"
      [] t = TypePush -> "ReadPushHeader"
      [] t = TypeSet -> "ReadSetHeader"
      [] t = TypeBlobString -> "ReadBlobString"
      [] t = TypeBlobError -> "ReadBlobError"
      [] t = TypeSimpleString -> "ReadSimpleString"
      [] t = TypeSimpleError -> "ReadSimpleError"

Bytes(k) == [i \in 1..k |-> LetterA]

RECURSIVE Repeat(_, _)
Repeat(s, k) == IF k = 0 THEN <<>> ELSE s \o Repeat(s, k - 1)

Payloads == {Bytes(k) : k \in 0..MaxPayload} \cup {CRLF, <<0>>}

NumberValues == {I64Zero, I64(7), Neg(I64(12)), MaxInt64, MinInt64}

BigTexts == {<<Digit1, Digit0>>, <<Minus, Digit1>>, [i \in 1..20 |-> Digit9]}

Scalars ==
    {Item(WriteNumber(n).w, TypeNumber, "ReadNumber") : n \in NumberValues}
    \cup {Item(WriteBoolean(b).w, TypeBoolean, "ReadBoolean") : b \in BOOLEAN}
    \cup {Item(WriteNull.w, TypeNull, "ReadNull"),
          Item(WriteEnd.w, TypeEnd, "ReadEnd"),
          Item(<<TypeArray, Minus, Digit1, CR, LF>>, TypeNull, "ReadNull"),
          Item(<<TypeBlobString, Minus, Digit1, CR, LF>>, TypeNull, "ReadNull")}
    \cup {Item(WriteBigNumber(x).w, TypeBigNumber, "ReadBigNumber") :
            x \in BigTexts}
    \cup {Item(<<TypeDouble>> \o x \o CRLF, TypeDouble, "ReadDouble") :
            x \in {<<Digit1, Dot, Digit0>>, <<105, 110, 102>>,
                    <<Minus, 105, 110, 102>>}}
    \cup {Item(writeSimple(t, Bytes(k)).w, t, HeaderOp(t)) :
            t \in {TypeSimpleString, TypeSimpleError}, k \in 0..MaxPayload}
    \cup {Item(writeBlob(t, s).w, t, HeaderOp(t)) :
            t \in {TypeBlobString, TypeBlobError}, s \in Payloads}
    \cup {Item(WriteVerbatimString(<<LetterT, LetterF, LetterT>>, Bytes(k)).w,
               TypeVerbatimString, "ReadVerbatimString") : k \in 0..MaxPayload}

\* A streamed blob of k chunks
StreamedBlob(t, k) ==
    V(writeBlobStreamHeader(t).w \o Repeat(WriteBlobChunk(Bytes(1)).w, k)
        \o WriteBlobChunk(<<>>).w,
      t, HeaderOp(t), 4)

StreamedBlobs ==
    {StreamedBlob(t, k) : t \in {TypeBlobString, TypeBlobError}, k \in 0..MaxElems}

\* An aggregate of n elements (n pairs for a map or an attribute), each e
Fixed(t, n, e) ==
    V(writeAggregateHeader(t, I64(n)).w \o Repeat(e, IF t \in {TypeAttribute, TypeMap} THEN 2 * n ELSE n),
      t, HeaderOp(t), Len(writeAggregateHeader(t, I64(n)).w))

\* A streamed aggregate of k elements, each e, closed by End
Streamed(t, k, e) ==
    V(writeAggregateStreamHeader(t).w \o Repeat(e, k) \o WriteEnd.w,
      t, HeaderOp(t), 4)

Aggregates(elems) ==
    {Fixed(t, n, e) : t \in AggregateTypes, n \in 0..MaxElems, e \in elems}
    \cup {Streamed(t, k, e) : t \in AggregateTypes, k \in 0..MaxElems, e \in elems}

Elems1 ==
    {WriteNumber(I64(7)).w, writeSimple(TypeSimpleString, Bytes(1)).w,
     <<TypeBlobString, Minus, Digit1, CR, LF>>,
     StreamedBlob(TypeBlobString, 1).w}

\* The values: scalars, streamed blobs, chunks by themselves (one chunk, and
\* a run of k chunks with its last one), aggregates of scalars and
\* aggregates of aggregates
Values ==
    Scalars \cup StreamedBlobs
    \cup {Item(WriteBlobChunk(Bytes(k)).w, TypeBlobChunk, "ReadBlobChunk") :
            k \in 0..MaxPayload}
    \cup {Item(Repeat(WriteBlobChunk(Bytes(1)).w, k) \o WriteBlobChunk(<<>>).w,
                TypeBlobChunk, "ReadBlobChunks") : k \in 1..MaxElems}
    \cup Aggregates(Elems1)
    \cup Aggregates({Fixed(TypeArray, 1, WriteNull.w).w,
                     Fixed(TypeMap, 1, WriteNull.w).w,
                     Streamed(TypeSet, 1, WriteNull.w).w,
                     Streamed(TypePush, 0, <<>>).w})

NoValue == V(<<>>, TypeInvalid, "none", 0)

----------------------------------------------------------------------------
(* The calls                                                               *)

\* The slices a caller passes to append to: nil, one that holds a letter and
\* one that holds a CR
Dsts == {<<>>, <<LetterT>>, <<CR>>}

\* A caller gives a stream up at the first error, but may Peek again.
Usable(op) ==
    /\ pc = "idle"
    /\ ret.err # Panic
    /\ ret.err = Nil \/ (op = "Peek" /\ call.op = "Peek")

\* The call op(args) happens and returns r; again: it is a Peek that follows
\* a Peek.
Do(op, nested, dst, r) ==
    /\ Usable(op)
    /\ prev' = br
    /\ br' = r.rest
    /\ call' = [op |-> op, nested |-> nested, dst |-> dst,
                 again |-> (op = "Peek" /\ call.op = "Peek")]
    /\ ret' = r
    /\ UNCHANGED <<limit, src, out, stack, pc, hd, ownbr, buf>>

CallPeek == Do("Peek", FALSE, <<>>, PeekOp(br))

CallDiscard == \E nested \in BOOLEAN :
    Do("Discard", nested, <<>>, DiscardOp(br, limit, nested))

CallReadArrayHeader ==
    Do("ReadArrayHeader", FALSE, <<>>, readAggregateHeader(br, TypeArray))

CallReadAttributeHeader ==
    Do("ReadAttributeHeader", FALSE, <<>>, readAggregateHeader(br, TypeAttribute))

CallReadMapHeader ==
    Do("ReadMapHeader", FALSE, <<>>, readAggregateHeader(br, TypeMap))

CallReadPushHeader ==
    Do("ReadPushHeader", FALSE, <<>>, readAggregateHeader(br, TypePush))

CallReadSetHeader ==
    Do("ReadSetHeader", FALSE, <<>>, readAggregateHeader(br, TypeSet))

CallReadBigNumber == Do("ReadBigNumber", FALSE, <<>>, ReadBigNumber(br, limit))

CallReadBlobChunk == \E dst \in Dsts :
    Do("ReadBlobChunk", FALSE, dst, ReadBlobChunk(br, limit, dst))

CallReadBlobChunks == \E dst \in Dsts :
    Do("ReadBlobChunks", FALSE, dst, ReadBlobChunks(br, limit, dst))

CallReadBlobError == \E dst \in Dsts :
    Do("ReadBlobError", FALSE, dst, readChunkableBlob(br, limit, TypeBlobError, dst))

CallReadBlobString == \E dst \in Dsts :
    Do("ReadBlobString", FALSE, dst, readChunkableBlob(br, limit, TypeBlobString, dst))

CallReadBoolean == Do("ReadBoolean", FALSE, <<>>, ReadBoolean(br, limit))

CallReadDouble == Do("ReadDouble", FALSE, <<>>, ReadDouble(br, limit))

CallReadEnd == Do("ReadEnd", FALSE, <<>>, ReadEnd(br))

CallReadNull == Do("ReadNull", FALSE, <<>>, ReadNull(br))

CallReadNumber == Do("ReadNumber", FALSE, <<>>, ReadNumber(br))

CallReadSimpleError == \E dst \in Dsts :
    Do("ReadSimpleError", FALSE, dst, readSimple(br, limit, TypeSimpleError, dst))

CallReadSimpleString == \E dst \in Dsts :
    Do("ReadSimpleString", FALSE, dst, readSimple(br, limit, TypeSimpleString, dst))

CallReadVerbatimString == \E dst \in Dsts :
    Do("ReadVerbatimString", FALSE, dst, ReadVerbatimString(br, limit, dst))

ReadOps ==
    {"ReadArrayHeader", "ReadAttributeHeader", "ReadMapHeader", "ReadPushHeader",
     "ReadSetHeader", "ReadBigNumber", "ReadBlobChunk", "ReadBlobChunks",
     "ReadBlobError", "ReadBlobString", "ReadBoolean", "ReadDouble", "ReadEnd",
     "ReadNull", "ReadNumber", "ReadSimpleError", "ReadSimpleString",
     "ReadVerbatimString"}

----------------------------------------------------------------------------
(* The Reader on a source that starts with a well-formed value             *)

\* A new Reader on the bytes s. How s was made: the first cut bytes of the
\* value v followed by tr; lit is the decimal literal or the payload in it,
\* k the length of its payload or of its longest chunk (where the
\* specification draws them).
Start(s, lim, v, tr, cut, lit, k) ==
    /\ limit = lim
    /\ src = s
    /\ br = s
    /\ prev = s
    /\ call = [op |-> "none", nested |-> FALSE, dst |-> <<>>, again |-> FALSE]
    /\ ret = Ok(s)
    /\ out = <<>>
    /\ stack = <<>>
    /\ pc = "idle"
    /\ hd = [v |-> v, tr |-> tr, cut |-> cut, lit |-> lit, k |-> k]
    /\ ownbr = [nil |-> FALSE, bound |-> TRUE, rest |-> <<>>]
    /\ buf = <<>>

Init ==
    \E v \in Values :
        \/ \E tr \in {<<>>, WriteNumber(I64(7)).w, WriteEnd.w} :
              Start(v.w \o tr, 0, v, tr, Len(v.w \o tr), <<>>, 0)
        \/ \E cut \in 0..(Len(v.w) - 1) :
              Start(Take(v.w, cut), 0, v, <<>>, cut, <<>>, 0)

Next ==
    \/ CallPeek
    \/ CallDiscard
    \/ CallReadArrayHeader
    \/ CallReadAttributeHeader
    \/ CallReadMapHeader
    \/ CallReadPushHeader
    \/ CallReadSetHeader
    \/ CallReadBigNumber
    \/ CallReadBlobChunk
    \/ CallReadBlobChunks
    \/ CallReadBlobError
    \/ CallReadBlobString
    \/ CallReadBoolean
    \/ CallReadDouble
    \/ CallReadEnd
    \/ CallReadNull
    \/ CallReadNumber
    \/ CallReadSimpleError
    \/ CallReadSimpleString
    \/ CallReadVerbatimString

Spec == Init /\ [][Next]_vars

\* The first call on a source that holds the whole value and what follows it
Whole == prev = src /\ hd.cut = Len(hd.v.w \o hd.tr)

----------------------------------------------------------------------------
(* Short sources of any bytes that matter to Peek and ReadNull             *)

MaxRaw == 5

SpecRaw ==
    /\ \E s \in {<<>>} \cup
               {<<b>> \o x :
                   b \in {TypeArray, TypeBlobString, TypeNull, TypeNumber, LetterA},
                   x \in UNION {[1..k -> {Minus, Digit1, CR, LF}] : k \in 0..MaxRaw}} :
           Start(s, 0, NoValue, <<>>, Len(s), <<>>, 0)
    /\ [][Next]_vars

----------------------------------------------------------------------------
(* Decimal literals around the ends of the int64 range                     *)

MaxZeros == 19

\* 2^63 and 2^63 + 1 as unsigned numbers
Pow63 == MinInt64
Pow63Plus1 == <<1, 0, 0, SignLimb>>
MaxUint64 == <<LimbBase - 1, LimbBase - 1, LimbBase - 1, LimbBase - 1>>

Zeros(k) == [i \in 1..k |-> Digit0]

Magnitudes ==
    {FormatUint(x) : x \in {I64Zero, I64(7), MaxInt64, Pow63, Pow63Plus1, MaxUint64}}
    \cup {FormatUint(x) \o <<d>> : x \in {MaxInt64, MaxUint64}, d \in {Digit0, Digit9}}
    \cup {<<Digit0, Digit0>> \o FormatUint(x) : x \in {I64(7), MaxInt64, Pow63}}
    \cup {<<a>> \o Zeros(k) : a \in Digit1..Digit9, k \in (MaxZeros - 3)..MaxZeros}
    \cup {<<a, b>> \o Zeros(k) : a \in Digit1..Digit9, b \in Digit0..Digit9,
                                 k \in (MaxZeros - 3)..(MaxZeros - 1)}

SpecNum ==
    /\ \E t \in {TypeNumber, TypeArray, TypeBlobString},
          lit \in Magnitudes \cup {<<Minus>> \o m : m \in Magnitudes} :
           LET w == <<t>> \o lit \o CRLF
           IN  Start(w, 0,
                     Item(w, t, IF t = TypeNumber THEN "ReadNumber" ELSE HeaderOp(t)),
                     <<>>, Len(w), lit, 0)
    /\ [][Next]_vars

\* The digits of a literal, and the literal as strconv writes its value
Magnitude(lit) == StripZeros(IF lit[1] = Minus THEN Tail(lit) ELSE lit)
Canonical(lit) ==
    IF lit[1] = Minus /\ Magnitude(lit) # <<Digit0>>
    THEN <<Minus>> \o Magnitude(lit)
    ELSE Magnitude(lit)

\* a < b for decimal numbers without leading zeros
RECURSIVE DecLess(_, _)
DecLess(a, b) ==
    IF Len(a) # Len(b) THEN Len(a) < Len(b)
    ELSE IF a = <<>> THEN FALSE
    ELSE IF a[1] # b[1] THEN a[1] < b[1]
    ELSE DecLess(Tail(a), Tail(b))

\* The value of the literal is less than -2^63 or more than 2^63 - 1
OutOfRange(lit) ==
    IF lit[1] = Minus THEN DecLess(FormatUint(Pow63), Magnitude(lit))
    ELSE DecLess(FormatUint(MaxInt64), Magnitude(lit))

----------------------------------------------------------------------------
(* Payloads around SingleReadSizeLimit                                     *)

MaxLimit == 5
LongLimit == BufSize + 2

VerbatimPrefix == <<LetterT, LetterF, LetterT>>

\* The values with a payload of k bytes
Sized(k) ==
    {Item(writeBlob(t, Bytes(k)).w, t, HeaderOp(t)) :
        t \in {TypeBlobString, TypeBlobError}}
    \cup {Item(writeSimple(t, Bytes(k)).w, t, HeaderOp(t)) :
        t \in {TypeSimpleString, TypeSimpleError}}
    \cup (IF k = 0 THEN {}
          ELSE {Item(WriteBlobChunk(Bytes(k)).w, TypeBlobChunk, "ReadBlobChunk")})
    \cup (IF k < verbatimPrefixLength + 1 THEN {}
          ELSE {Item(WriteVerbatimString(VerbatimPrefix,
                                         Bytes(k - verbatimPrefixLength - 1)).w,
                     TypeVerbatimString, "ReadVerbatimString")})

SpecLimit ==
    /\ \/ \E lim \in {-1} \cup 0..MaxLimit \cup {LongLimit},
             k \in 0..(MaxLimit + 1) \cup {LongLimit, LongLimit + 1},
             tr \in {<<>>, WriteNull.w} :
             \E v \in Sized(k) : Start(v.w \o tr, lim, v, tr, Len(v.w \o tr), <<>>, k)
       \/ \E lim \in {-1, 0},
             k \in {DefaultSingleReadSizeLimit, DefaultSingleReadSizeLimit + 1},
             top \in {[t |-> TypeBlobString, op |-> "ReadBlobString"],
                      [t |-> TypeBlobError, op |-> "ReadBlobError"],
                      [t |-> TypeBlobChunk, op |-> "ReadBlobChunk"],
                      [t |-> TypeVerbatimString, op |-> "ReadVerbatimString"]} :
             LET w == writeNumber(top.t, I64(k)).w
             IN  Start(w, lim, V(w, top.t, top.op, Len(w)), <<>>, Len(w), <<>>, k)
       \* a line of k bytes that fills the buffer of the bufio.Reader once or
       \* twice, with its CRLF or cut before it
       \/ \E lim \in {-1, 0} \cup (BufSize - 3)..(BufSize - 1)
                         \cup (2 * BufSize - 3)..(2 * BufSize - 1),
             k \in (BufSize - 2)..(BufSize + 1) \cup (2 * BufSize - 2)..(2 * BufSize + 1),
             t \in {TypeSimpleString, TypeSimpleError},
             e \in {<<>>, CRLF} :
             \E w \in {<<t>> \o Bytes(k) \o e} :
                Start(w, lim, V(w, t, "fragments", Len(w)), e, Len(w), Bytes(k), k)
    /\ [][Next]_vars

\* The limit in force
EffectiveLimit == IF limit = 0 THEN DefaultSingleReadSizeLimit ELSE limit

----------------------------------------------------------------------------
(* Sources that no Writer sends: any byte in front, counts and lengths of  *)
(* any text, verbatim payloads of any shape, lengths that no memory holds, *)
(* lines of any bytes                                                      *)

MaxCount == 2
MaxVerbatim == 5
MaxLine == 3

SpecForms ==
    /\ \E lim \in {-1, 0, 1} :
           \* any byte, alone or in front of a line
           \/ \E b \in 0..255, x \in {<<>>, CRLF, <<Minus, Digit1, CR, LF>>} :
                 Start(<<b>> \o x, lim, NoValue, x, 1 + Len(x), <<>>, 0)
           \* a line that holds any text as its number, and what follows it
           \/ \E t \in AggregateTypes \cup {TypeNumber, TypeBigNumber, TypeBlobString,
                                            TypeBlobChunk, TypeVerbatimString},
                 c \in UNION {[1..k -> {Minus, Plus, Digit0, Digit1, LetterA, Question}] :
                                 k \in 0..MaxCount},
                 tr \in {<<>>, CRLF, <<LetterA, CR, LF>>} :
                 Start(<<t>> \o c \o CRLF \o tr, lim,
                       V(<<t>> \o c \o CRLF, t, "line", Len(c) + 3), tr,
                       Len(c) + 3 + Len(tr), c, 0)
           \* a verbatim string of the payload p, sent with its length or with
           \* one byte less than its length
           \/ \E p \in UNION {[1..k -> {LetterT, Colon}] : k \in 0..MaxVerbatim},
                 less \in {0, 1} :
                 /\ Len(p) >= less
                 /\ \E w \in {writeNumber(TypeVerbatimString, I64(Len(p) - less)).w
                               \o p \o CRLF} :
                       Start(w, lim, V(w, TypeVerbatimString, "payload", Len(w)),
                             <<>>, Len(w), p, Len(p) - less)
           \* a streamed blob of the chunks a and b, those of them that are not
           \* empty, and what follows it
           \/ \E t \in {TypeBlobString, TypeBlobError},
                 a \in {<<>>, <<LetterA>>, <<LetterT, Colon>>},
                 b \in {<<>>, <<LetterA>>, <<LetterT, Colon>>},
                 tr \in {<<>>, WriteNull.w} :
                 \E w \in {writeBlobStreamHeader(t).w
                               \o (IF a = <<>> THEN <<>> ELSE WriteBlobChunk(a).w)
                               \o (IF b = <<>> THEN <<>> ELSE WriteBlobChunk(b).w)
                               \o WriteBlobChunk(<<>>).w} :
                    Start(w \o tr, lim, V(w, t, "chunks", 4), tr, Len(w \o tr),
                          a \o b, IF Len(a) > Len(b) THEN Len(a) ELSE Len(b))
           \* a count or a length at the ends of the int64 range
           \/ \E t \in {TypeArray, TypeMap, TypeBlobString, TypeBlobError,
                        TypeBlobChunk, TypeVerbatimString},
                 n \in {MaxInt64, MinInt64, <<0, 0, 0, 1>>} :
                 \E w \in {writeNumber(t, n).w} :
                    Start(w, lim, V(w, t, "line", Len(w)), <<>>, Len(w),
                          FormatInt(n), 0)
           \* the tag of a value that is one line, and any bytes after it
           \/ \E t \in {TypeSimpleString, TypeSimpleError, TypeBigNumber,
                        TypeDouble, TypeBoolean},
                 x \in UNION {[1..k -> {Digit1, LetterT, CR, LF}] : k \in 0..MaxLine} :
                 Start(<<t>> \o x, lim, V(<<t>> \o x, t, "bytes", 1 + Len(x)),
                       <<>>, 1 + Len(x), x, 0)
    /\ [][Next]_vars

----------------------------------------------------------------------------
(* Round trip: what the Writer wrote is read and written again             *)

\* One turn of the loop of copyReaderToWriter: the bytes left unread, the
\* error that ends the test, and the bytes written
Copied(rest, w) == [rest |-> rest, err |-> Nil, w |-> w]
CopyFailed(rest, err) == [rest |-> rest, err |-> err, w |-> <<>>]
Then(r, wr) ==
    IF r.err # Nil THEN CopyFailed(r.rest, r.err)
    ELSE IF wr.err # Nil THEN CopyFailed(r.rest, wr.err)
    ELSE Copied(r.rest, wr.w)

\* makeCopyAggregateFunc
copyAggregate(s, t) ==
    Bind(readAggregateHeader(s, t), LAMBDA h :
        Then(h, IF h.flag THEN writeAggregateStreamHeader(t)
                ELSE writeAggregateHeader(t, h.n)))

\* The loop of makeCopyBlobFunc over the chunks
RECURSIVE copyChunks(_, _, _)
copyChunks(s, lim, w) ==
    Bind(ReadBlobChunk(s, lim, <<>>), LAMBDA c :
    Bind(WriteBlobChunk(c.b), LAMBDA wr :
        IF c.err # Nil THEN CopyFailed(c.rest, c.err)
        ELSE IF wr.err # Nil THEN CopyFailed(c.rest, wr.err)
        ELSE IF c.flag THEN Copied(c.rest, w \o wr.w)
        ELSE copyChunks(c.rest, lim, w \o wr.w)))

\* makeCopyBlobFunc
copyBlob(s, lim, t) ==
    Bind(readChunkableBlob(s, lim, t, <<>>), LAMBDA r :
        IF r.err # Nil THEN CopyFailed(r.rest, r.err)
        ELSE IF ~r.flag THEN Then(r, writeBlob(t, r.b))
        ELSE copyChunks(r.rest, lim, writeBlobStreamHeader(t).w))

\* makeCopySimpleFunc
copySimple(s, lim, t) ==
    Bind(readSimple(s, lim, t, <<>>), LAMBDA r :
        Then(r, writeSimple(t, r.b)))

\* copyFuncs[t]
copyFuncs(s, lim, t) ==
    CASE t \in AggregateTypes -> copyAggregate(s, t)
      [] t \in {TypeBlobError, TypeBlobString} -> copyBlob(s, lim, t)
      [] t \in {TypeSimpleError, TypeSimpleString} -> copySimple(s, lim, t)
      [] t = TypeBigNumber ->
            Bind(ReadBigNumber(s, lim), LAMBDA r : Then(r, WriteBigNumber(r.b)))
      [] t = TypeBoolean ->
            Bind(ReadBoolean(s, lim), LAMBDA r : Then(r, WriteBoolean(r.flag)))
      [] t = TypeBlobChunk ->
            Bind(ReadBlobChunk(s, lim, <<>>),
                 LAMBDA r : Then(r, WriteBlobChunk(r.b)))
      [] t = TypeEnd -> Then(ReadEnd(s), WriteEnd)
      [] t = TypeNumber ->
            Bind(ReadNumber(s), LAMBDA r : Then(r, WriteNumber(r.n)))
      [] t = TypeNull -> Then(ReadNull(s), WriteNull)
      [] t = TypeVerbatimString ->
            Bind(ReadVerbatimString(s, lim, <<>>), LAMBDA r :
                Then(r, WriteVerbatimString(Take(r.b, verbatimPrefixLength),
                                            Drop(r.b, verbatimPrefixLength + 1))))

\* copyReaderToWriter, one turn; doubles are not copied in this model
\* (WriteDouble is not part of it)
Copy ==
    \E p \in {PeekOp(br)} :
        /\ Usable("Copy")
        /\ p.err = Nil
        /\ p.t # TypeDouble
        /\ \E c \in {copyFuncs(br, limit, p.t)} :
              /\ prev' = br
              /\ br' = c.rest
              /\ out' = out \o c.w
              /\ call' = [op |-> "Copy", nested |-> FALSE, dst |-> <<>>,
                          again |-> FALSE]
              /\ ret' = [Fail(c.rest, c.err) EXCEPT !.t = p.t]
        /\ UNCHANGED <<limit, src, stack, pc, hd, ownbr, buf>>

\* What the Writer accepts and writes
Written ==
    {Item(WriteNumber(n).w, TypeNumber, "ReadNumber") : n \in NumberValues}
    \cup {Item(WriteBoolean(b).w, TypeBoolean, "ReadBoolean") : b \in BOOLEAN}
    \cup {Item(WriteNull.w, TypeNull, "ReadNull"),
          Item(WriteEnd.w, TypeEnd, "ReadEnd")}
    \cup {Item(WriteBigNumber(x).w, TypeBigNumber, "ReadBigNumber") :
            x \in BigTexts}
    \cup {Item(writeSimple(t, Bytes(k)).w, t, HeaderOp(t)) :
            t \in {TypeSimpleString, TypeSimpleError}, k \in 0..MaxPayload}
    \cup {Item(writeBlob(t, s).w, t, HeaderOp(t)) :
            t \in {TypeBlobString, TypeBlobError}, s \in Payloads}
    \cup {Item(WriteBlobChunk(s).w, TypeBlobChunk, "ReadBlobChunk") :
            s \in Payloads}
    \cup {Item(WriteVerbatimString(VerbatimPrefix, s).w,
               TypeVerbatimString, "ReadVerbatimString") : s \in Payloads}
    \cup {Item(writeAggregateHeader(t, n).w, t, HeaderOp(t)) :
            t \in AggregateTypes, n \in {I64Zero, I64(1), MaxInt64}}
    \cup {Item(writeAggregateStreamHeader(t).w, t, HeaderOp(t)) :
            t \in AggregateTypes}
    \cup StreamedBlobs

SpecRT ==
    /\ \E v \in Written, tr \in {<<>>} \cup {x.w : x \in Written} :
           Start(v.w \o tr, 0, v, tr, Len(v.w \o tr), <<>>, 0)
    /\ [][CallPeek \/ Copy]_vars

----------------------------------------------------------------------------
(* The Writer by itself: calls that it refuses among calls that it accepts *)

MaxSink == 6

\* The call op(arg) of the Writer happens and returns r: what it wrote is
\* appended to the sink. For a call of the Writer prev is the sink as the
\* call found it, ret.b the bytes that the call wrote, and ret.flag tells
\* that the call before it returned an error.
Write(op, arg, r) ==
    /\ pc = "idle"
    /\ Len(out) < MaxSink
    /\ prev' = out
    /\ out' = out \o r.w
    /\ call' = [op |-> op, nested |-> FALSE, dst |-> arg, again |-> FALSE]
    /\ ret' = [Fail(br, r.err) EXCEPT !.b = r.w, !.flag = (ret.err # Nil)]
    /\ UNCHANGED <<limit, src, br, stack, pc, hd, ownbr, buf>>

SpecW ==
    /\ Start(<<>>, 0, NoValue, <<>>, 0, <<>>, 0)
    /\ [][\/ \E n \in {Neg(I64(10)), Neg(I64(1)), I64Zero, I64(1), I64(10), MinInt64} :
                \/ Write("WriteArrayHeader", n, writeAggregateHeader(TypeArray, n))
                \/ Write("WriteAttributeHeader", n, writeAggregateHeader(TypeAttribute, n))
                \/ Write("WriteMapHeader", n, writeAggregateHeader(TypeMap, n))
                \/ Write("WritePushHeader", n, writeAggregateHeader(TypePush, n))
                \/ Write("WriteSetHeader", n, writeAggregateHeader(TypeSet, n))
          \/ Write("WriteArrayStreamHeader", <<>>, writeAggregateStreamHeader(TypeArray))
          \/ Write("WriteAttributeStreamHeader", <<>>, writeAggregateStreamHeader(TypeAttribute))
          \/ Write("WriteMapStreamHeader", <<>>, writeAggregateStreamHeader(TypeMap))
          \/ Write("WritePushStreamHeader", <<>>, writeAggregateStreamHeader(TypePush))
          \/ Write("WriteSetStreamHeader", <<>>, writeAggregateStreamHeader(TypeSet))
          \/ \E x \in {<<>>, Bytes(1), <<CR>>, <<LF>>, CRLF, <<LetterA, LF, LetterA>>} :
                \/ Write("WriteSimpleError", x, writeSimple(TypeSimpleError, x))
                \/ Write("WriteSimpleString", x, writeSimple(TypeSimpleString, x))
          \/ \E p \in {<<>>, Bytes(2), VerbatimPrefix, Bytes(4)}, x \in {<<>>, CRLF} :
                Write("WriteVerbatimString", <<p, x>>, WriteVerbatimString(p, x))
          \/ Write("WriteNull", <<>>, WriteNull)]_vars

----------------------------------------------------------------------------
(* Discard(true) and ReadBlobChunks one call and one turn of a loop at a   *)
(* time. The stack holds the loops that are running, innermost last: N,    *)
(* discardN with n values to go; S, discardAggregateChunks; B, the loop of *)
(* ReadBlobChunks with b read so far. t is the type that the Discard       *)
(* running the loop returns.                                               *)

Frame(k, t, n, b) == [k |-> k, t |-> t, n |-> n, b |-> b]

\* What a step comes to: the call is done and returns t (and b), it failed,
\* or it goes on in the loop f
NoFrame == Frame("", TypeInvalid, I64Zero, <<>>)
Done(rest, t, b) ==
    [kind |-> "done", rest |-> rest, err |-> Nil, t |-> t, b |-> b,
     frame |-> NoFrame]
Failed(rest, err) ==
    [kind |-> "fail", rest |-> rest, err |-> err, t |-> TypeInvalid, b |-> <<>>,
     frame |-> NoFrame]
Loop(rest, f) ==
    [kind |-> "loop", rest |-> rest, err |-> Nil, t |-> f.t, b |-> <<>>,
     frame |-> f]

\* One turn of the loop of ReadBlobChunks with b read so far, for a caller
\* that returns t
chunkStepSpinning(s, lim, t, b) == Loop(s, Frame("B", t, I64Zero, b))

chunkStep(s, lim, t, b) ==
    Bind(ReadBlobChunk(s, lim, b), LAMBDA c :
        IF c.err # Nil THEN Failed(c.rest, c.err)
        ELSE IF c.flag THEN Done(c.rest, t, c.b)
        ELSE Loop(c.rest, Frame("B", t, I64Zero, c.b)))

\* What one call of Discard(true) does itself: all of it, or as far as the
\* first call of Discard or the second turn of ReadBlobChunks within it
discardStep(s, lim) ==
    Bind(PeekOp(s), LAMBDA p :
    Bind(p.t, LAMBDA t :
    Bind(readAggregateHeader(s, t), LAMBDA h :
    Bind(IF t \in {TypeAttribute, TypeMap} THEN MulAdd(h.n, 2, 0) ELSE h.n, LAMBDA n :
    Bind(consume(s, <<t, Question, CR, LF>>), LAMBDA c :
    Bind(discardSwitch(s, lim, t, TRUE), LAMBDA d :
        IF p.err # Nil THEN Failed(s, p.err)
        ELSE IF t \in AggregateTypes
        THEN IF h.err # Nil THEN Failed(h.rest, wrapEOF(h.err))
             ELSE IF h.flag THEN Loop(h.rest, Frame("S", t, I64Zero, <<>>))
             ELSE IF ~Less(I64Zero, n) THEN Done(h.rest, t, <<>>)
             ELSE Loop(h.rest, Frame("N", t, n, <<>>))
        ELSE IF t \in {TypeBlobError, TypeBlobString} /\ c.ok
        THEN Loop(c.rest, Frame("B", t, I64Zero, <<>>))
        ELSE IF t = TypeBlobChunk
        THEN Bind(chunkStep(s, lim, t, <<>>), LAMBDA x :
                IF x.kind = "fail" THEN Failed(x.rest, wrapEOF(x.err)) ELSE x)
        ELSE IF d.err # Nil THEN Failed(d.rest, wrapEOF(d.err))
        ELSE Done(d.rest, t, <<>>)))))))

\* A call made by the innermost loop of stk returned t without an error:
\* the loops that are still running, or done and the type returned by the
\* first call
RECURSIVE Deliver(_, _)
Deliver(stk, t) ==
    LET f == stk[Len(stk)]
        up == SubSeq(stk, 1, Len(stk) - 1)
    IN  IF stk = <<>> THEN [stack |-> <<>>, t |-> t]
        ELSE IF f.k = "N"
        THEN IF Less(I64Zero, Dec(f.n))
             THEN [stack |-> Append(up, [f EXCEPT !.n = Dec(f.n)]), t |-> t]
             ELSE Deliver(up, f.t)
        ELSE IF f.k = "S"
        THEN IF t = TypeEnd THEN Deliver(up, f.t)
             ELSE [stack |-> stk, t |-> t]
        ELSE Deliver(up, f.t)

\* The state after the step x made under the loops stk. An error ends every
\* call that is running, and each Discard on the way wraps it (wrap).
After(op, x, stk, wrap) ==
    LET dl == Deliver(stk, x.t)
        stk2 == IF x.kind = "loop" THEN Append(stk, x.frame)
                ELSE IF x.kind = "done" THEN dl.stack
                ELSE <<>>
    IN  /\ br' = x.rest
        /\ stack' = stk2
        /\ pc' = IF stk2 = <<>> THEN "idle" ELSE "run"
        /\ ret' = IF x.kind = "fail"
                  THEN Fail(x.rest, IF wrap THEN wrapEOF(x.err) ELSE x.err)
                  ELSE IF x.kind = "done" /\ stk2 = <<>>
                  THEN IF op = "Discard" THEN [Ok(x.rest) EXCEPT !.t = dl.t]
                       ELSE [Ok(x.rest) EXCEPT !.b = x.b]
                  ELSE Ok(x.rest)

\* The call of Discard(true), as far as its first step
StartDiscard ==
    /\ Usable("Discard")
    /\ prev' = br
    /\ call' = [op |-> "Discard", nested |-> TRUE, dst |-> <<>>, again |-> FALSE]
    /\ \E x \in {discardStep(br, limit)} : After("Discard", x, <<>>, FALSE)
    /\ UNCHANGED <<limit, src, out, hd, ownbr, buf>>

\* The call of ReadBlobChunks(nil), as far as its first chunk
StartReadBlobChunks ==
    /\ Usable("ReadBlobChunks")
    /\ prev' = br
    /\ call' = [op |-> "ReadBlobChunks", nested |-> FALSE, dst |-> <<>>, again |-> FALSE]
    /\ \E x \in {chunkStep(br, limit, TypeInvalid, <<>>)} :
          After("ReadBlobChunks", x, <<>>, FALSE)
    /\ UNCHANGED <<limit, src, out, hd, ownbr, buf>>

\* The next step of the call that is running: a turn of the loop of
\* ReadBlobChunks, or the next call of Discard(true) in the innermost loop
StepChunk ==
    /\ pc = "run"
    /\ stack[Len(stack)].k = "B"
    /\ \E f \in {stack[Len(stack)]} :
          \E x \in {chunkStep(br, limit, f.t, f.b)} :
             After(call.op, x, SubSeq(stack, 1, Len(stack) - 1), call.op = "Discard")
    /\ UNCHANGED <<limit, src, prev, call, out, hd, ownbr, buf>>

StepDiscardSharing ==
    /\ pc = "run"
    /\ stack[Len(stack)].k # "B"
    /\ \E x \in {discardStep(br, limit)} : After(call.op, x, stack, TRUE)
    /\ buf' = <<>>
    /\ UNCHANGED <<limit, src, prev, call, out, hd, ownbr>>

StepDiscard ==
    /\ pc = "run"
    /\ stack[Len(stack)].k # "B"
    /\ \E x \in {discardStep(br, limit)} : After(call.op, x, stack, TRUE)
    /\ UNCHANGED <<limit, src, prev, call, out, hd, ownbr, buf>>

\* The two calls step by step, and between them the reads that leave the
\* caller within an aggregate, a streamed blob or a run of chunks
SpecFair ==
    /\ \/ Init
       \* counts that no input has the elements for
       \/ \E h \in {writeAggregateHeader(TypeArray, MaxInt64).w,
                    writeAggregateHeader(TypeMap, MaxInt64).w,
                    <<TypeMap>> \o FormatUint(<<0, 0, 0, SignLimb \div 2>>) \o CRLF},
             e \in Elems1 \cup {<<>>} :
             Start(h \o e \o e, 0, NoValue, <<>>, Len(h \o e \o e), <<>>, 0)
    /\ [][\/ StartDiscard
          \/ StartReadBlobChunks
          \/ StepChunk
          \/ StepDiscard
          \/ CallReadArrayHeader
          \/ CallReadAttributeHeader
          \/ CallReadMapHeader
          \/ CallReadPushHeader
          \/ CallReadSetHeader
          \/ CallReadBlobError
          \/ CallReadBlobString
          \/ CallReadBlobChunk]_vars
    \* A call that is running goes on running: weak fairness of the steps
    \* StepChunk \/ StepDiscard, which are enabled exactly when pc = "run"
    /\ ([]<>(pc # "run") \/ []<><<StepChunk \/ StepDiscard>>_vars)

----------------------------------------------------------------------------
(* Reset: the Reader is bound to another source                            *)

MaxResets == 3

\* The sources of TestReaderReset, and two that hold more than one value
Sources ==
    {<<>>, WriteEnd.w, WriteNumber(I64(7)).w \o WriteEnd.w,
     writeSimple(TypeSimpleString, Bytes(1)).w \o WriteNumber(I64(7)).w}

\* bufio.Reader.Reset(r) on a reader with the unread bytes b: what it has
\* buffered is dropped, and it reads from r
bufioResetKeeping(b, r) == b \o r

bufioReset(b, r) == r

\* Reader.Reset(r). bufio: r is a *bufio.Reader and s its unread bytes;
\* otherwise r is a reader that delivers s
CallReset(s, bufio) ==
    /\ pc = "idle"
    /\ ret.err # Panic
    /\ hd.k < MaxResets
    /\ IF bufio
       THEN /\ br' = s
            /\ ownbr' = [ownbr EXCEPT
                            !.bound = FALSE,
                            !.rest = IF ownbr.bound THEN br ELSE ownbr.rest]
       ELSE /\ br' = IF ownbr.nil THEN s
                     ELSE bufioReset(IF ownbr.bound THEN br ELSE ownbr.rest, s)
            /\ ownbr' = [nil |-> FALSE, bound |-> TRUE, rest |-> <<>>]
    /\ src' = s
    /\ prev' = br
    /\ call' = [op |-> "Reset", nested |-> FALSE, dst |-> s, again |-> FALSE,
                bufio |-> bufio]
    /\ ret' = Ok(s)
    /\ hd' = [hd EXCEPT !.k = hd.k + 1]
    /\ UNCHANGED <<limit, out, stack, pc, buf>>

\* NewReader(r) on a reader or on a *bufio.Reader, with any limit set, and
\* then Resets between the reads
SpecReset ==
    /\ \E s \in Sources, lim \in {-1, 0, 1}, bufio \in BOOLEAN :
          /\ limit = lim
          /\ src = s
          /\ br = s
          /\ prev = s
          /\ call = [op |-> "none", nested |-> FALSE, dst |-> <<>>, again |-> FALSE]
          /\ ret = Ok(s)
          /\ out = <<>>
          /\ stack = <<>>
          /\ pc = "idle"
          /\ hd = [v |-> NoValue, tr |-> <<>>, cut |-> Len(s), lit |-> <<>>, k |-> 0]
          /\ ownbr = [nil |-> bufio, bound |-> ~bufio, rest |-> <<>>]
          /\ buf = <<>>
    /\ [][\/ \E s \in Sources, bufio \in BOOLEAN : CallReset(s, bufio)
          \/ CallPeek
          \/ CallReadEnd
          \/ CallReadNumber
          \/ CallReadSimpleString]_vars

----------------------------------------------------------------------------
(* A ReadWriter: a method of its Writer runs while a method of its Reader  *)
(* runs, each a step at a time. The Reader reads what the peer sent, the   *)
(* Writer writes to the peer (simpleReadWriter of the tests).              *)

\* A method of the Writer up to its rw.w.Write: rw.buf = append(rw.buf[:0],
\* ...) with the encoding w. hd.lit is what the calls made so far write.
WriteFill(w) ==
    /\ buf = <<>>
    /\ Len(out) < MaxSink
    /\ buf' = w
    /\ hd' = [hd EXCEPT !.lit = hd.lit \o w]
    /\ UNCHANGED <<limit, src, br, prev, call, ret, out, stack, pc, ownbr>>

\* rw.w.Write(rw.buf), after which the method returns
WriteFlush ==
    /\ buf # <<>>
    /\ out' = out \o buf
    /\ buf' = <<>>
    /\ UNCHANGED <<limit, src, br, prev, call, ret, stack, pc, hd, ownbr>>

\* The two calls of the Reader step by step, and between their steps the
\* steps of the calls of the Writer
SpecRW ==
    /\ \E v \in Aggregates(Elems1) \cup StreamedBlobs :
          Start(v.w, 0, v, <<>>, Len(v.w), <<>>, 0)
    /\ [][\/ StartDiscard
          \/ StartReadBlobChunks
          \/ StepChunk
          \/ StepDiscard
          \/ \E w \in {WriteNumber(I64(7)).w,
                       writeAggregateStreamHeader(TypeArray).w,
                       writeSimple(TypeSimpleString, Bytes(1)).w} : WriteFill(w)
          \/ WriteFlush]_vars

----------------------------------------------------------------------------
(* The caller's own skip of a value, from the public methods: the helpers  *)
(* discard, discardAggregate and discardStream of the integration test     *)

RECURSIVE discard(_, _)

\* discard, TypeBlobError and TypeBlobString: the loop for chunked
RECURSIVE discardChunked(_, _)
discardChunked(s, lim) ==
    Bind(ReadBlobChunk(s, lim, <<>>), LAMBDA c :
        IF c.err # Nil \/ c.flag THEN c ELSE discardChunked(c.rest, lim))

\* discardAggregate: for i := int64(0); i < n; i++ { discard(tb, rr) }
RECURSIVE discardTimes(_, _, _)
discardTimes(s, lim, n) ==
    Bind(discard(s, lim), LAMBDA d :
        IF ~Less(I64Zero, n) THEN Ok(s)
        ELSE IF d.err # Nil THEN d
        ELSE discardTimes(d.rest, lim, Dec(n)))

\* discardStream: the loop ends at the End that Peek sees, which it leaves
\* unread; a discard that reads nothing is called again for ever, and the
\* call does not return ("hang")
RECURSIVE discardStream(_, _)
discardStream(s, lim) ==
    Bind(PeekOp(s), LAMBDA p :
    Bind(discard(s, lim), LAMBDA d :
        IF p.err = Nil /\ p.t = TypeEnd THEN Ok(s)
        ELSE IF d.err # Nil THEN d
        ELSE IF d.rest = s THEN Fail(s, "hang")
        ELSE discardStream(d.rest, lim)))

\* discardAggregate of the test (Reader.discardAggregate has the name)
discardElements(s, lim, ty, n, chunked) ==
    IF chunked THEN discardStream(s, lim)
    ELSE discardTimes(s, lim,
                      IF ty \in {TypeAttribute, TypeMap} THEN MulAdd(n, 2, 0) ELSE n)

\* discard
discard(s, lim) ==
    Bind(PeekOp(s), LAMBDA p :
        IF p.err # Nil THEN Fail(s, p.err)
        ELSE CASE p.t \in AggregateTypes ->
                    Bind(readAggregateHeader(s, p.t), LAMBDA h :
                        IF h.err # Nil THEN h
                        ELSE discardElements(h.rest, lim, p.t, h.n, h.flag))
               [] p.t \in {TypeBlobError, TypeBlobString} ->
                    Bind(readChunkableBlob(s, lim, p.t, <<>>), LAMBDA b :
                        IF b.err # Nil \/ ~b.flag THEN b
                        ELSE discardChunked(b.rest, lim))
               [] p.t \in {TypeSimpleError, TypeSimpleString} ->
                    readSimple(s, lim, p.t, <<>>)
               [] p.t = TypeEnd -> ReadEnd(s)
               [] p.t = TypeNull -> ReadNull(s)
               [] p.t = TypeBigNumber -> ReadBigNumber(s, lim)
               [] p.t = TypeBoolean -> ReadBoolean(s, lim)
               [] p.t = TypeDouble -> ReadDouble(s, lim)
               [] p.t = TypeBlobChunk -> ReadBlobChunk(s, lim, <<>>)
               [] p.t = TypeNumber -> ReadNumber(s)
               [] OTHER -> Ok(s))

----------------------------------------------------------------------------
(* The claims                                                              *)

\* The first call on the source is the Read* call that matches the value
First == prev = src /\ call.op = hd.v.op

\* The source is a non-empty proper prefix of the value
Truncated == 0 < hd.cut /\ hd.cut < Len(hd.v.w)

\* C1: for every well-formed value at the head of the input, Discard(true)
\* succeeds, returns the kind of the value and leaves exactly the bytes that
\* followed the value.
C1_DiscardConsumesValue ==
    (call.op = "Discard" /\ call.nested /\ Whole /\ hd.v.t # TypeBlobChunk)
        => (ret.err = Nil /\ ret.t = hd.v.t /\ br = hd.tr)

\* The step that the call running would take next
NextStep ==
    LET f == stack[Len(stack)]
    IN  IF f.k = "B" THEN chunkStep(br, limit, f.t, f.b)
        ELSE discardStep(br, limit)

\* The step by step run of a call returns what the call returns
C2_Agrees ==
    /\ (pc = "idle" /\ call.op = "Discard" /\ call.nested) =>
          LET d == DiscardOp(prev, limit, TRUE)
          IN  ret.err = d.err /\ ret.t = d.t /\ br = d.rest
    /\ (pc = "idle" /\ call.op = "ReadBlobChunks") =>
          LET d == ReadBlobChunks(prev, limit, <<>>)
          IN  ret.err = d.err /\ ret.b = d.b /\ br = d.rest

\* A call that returned without an error consumed input; while a call is
\* running, its first step consumed input and its next step consumes input
\* or fails
C2_Progress ==
    /\ (pc = "idle" /\ call.op \in ReadOps \cup {"Discard"} /\ ret.err = Nil)
          => Len(br) < Len(prev)
    /\ pc = "run" =>
          /\ Len(br) < Len(prev)
          /\ NextStep.kind = "fail" \/ Len(NextStep.rest) < Len(br)

\* C2: on every finite input every call terminates: every recursive call of
\* Discard and every turn of a loop consumes at least one byte of input or
\* returns an error, and a call that is running returns.
C2_Terminates ==
    /\ [](C2_Agrees /\ C2_Progress)
    /\ (pc = "run") ~> (pc = "idle")

C2_Witness ==
    /\ pc = "run"
    /\ Len(stack) >= 2
    /\ stack[1].k = "N"
    /\ stack[Len(stack)].k = "B"
    /\ stack[Len(stack)].b # <<>>

\* C3: ReadNumber and the lengths and counts read by readNumber never succeed
\* with a value that is not the value of the literal, and every literal whose
\* value is outside the int64 range fails with ErrOverflow.
C3_NoWrongNumber ==
    First =>
        /\ (ret.err = Nil /\ hd.v.t # TypeBlobString)
              => FormatInt(ret.n) = Canonical(hd.lit)
        /\ OutOfRange(hd.lit) => ret.err = ErrOverflow

\* C4: ReadNumber fails with ErrOverflow on 2^63 and on -(2^63)-1, and reads
\* 2^63-1 and -2^63 as they are.
C4_OverflowBoundary ==
    (First /\ hd.v.t = TypeNumber) =>
        /\ hd.lit = FormatInt(MaxInt64) => (ret.err = Nil /\ ret.n = MaxInt64)
        /\ hd.lit = FormatInt(MinInt64) => (ret.err = Nil /\ ret.n = MinInt64)
        /\ hd.lit = FormatUint(Pow63) => ret.err = ErrOverflow
        /\ hd.lit = <<Minus>> \o FormatUint(Pow63Plus1) => ret.err = ErrOverflow

\* C5: whatever the Writer wrote is read by the matching Read* call without
\* an error, and writing what was read gives the same bytes.
C5_RoundTrip ==
    call.op = "Copy" => (ret.err = Nil /\ out \o br = src)

\* C6: with a limit N > 0 a payload of at most N bytes is read and a longer
\* one fails with ErrSingleReadSizeLimitExceeded; with the limit 0 the bound
\* is DefaultSingleReadSizeLimit; with a negative limit no size is refused.
C6_LimitBoundary ==
    First =>
        /\ (limit >= 0 /\ hd.k > EffectiveLimit)
              => ret.err = ErrSingleReadSizeLimitExceeded
        /\ (limit < 0 \/ hd.k <= EffectiveLimit) =>
              /\ ret.err # ErrSingleReadSizeLimitExceeded
              /\ Len(hd.v.w) > hd.k => (ret.err = Nil /\ br = hd.tr)

C6_Witness ==
    /\ First
    /\ limit > 0
    /\ hd.k = limit
    /\ hd.v.t = TypeVerbatimString
    /\ ret.err = Nil
    /\ Len(ret.b) = limit

\* C7: Peek consumes nothing, and a Peek that follows a Peek returns the same
\* type and the same error.
C7_PeekIdempotent ==
    [][/\ call'.op = "Peek" => br' = br
       /\ (call.op = "Peek" /\ call'.op = "Peek")
             => (ret'.t = ret.t /\ ret'.err = ret.err)]_vars

C7_Witness ==
    /\ call.op = "Peek"
    /\ call.again
    /\ ret.t = TypeNull
    /\ Len(br) > 5
    /\ br[1] = TypeBlobString

\* The input starts with a RESP2 null, with a null
IsLegacyNull(s) ==
    \E t \in {TypeArray, TypeBlobString} : IsPrefix(<<t, Minus, Digit1, CR, LF>>, s)
IsNull(s) == IsLegacyNull(s) \/ IsPrefix(<<TypeNull, CR, LF>>, s)
AfterNull(s) == Drop(s, IF IsLegacyNull(s) THEN 5 ELSE 3)

\* C8: on input that starts with "_\r\n", "*-1\r\n" or "$-1\r\n" Peek returns
\* TypeNull, ReadNull consumes that form and nothing else, and Discard returns
\* TypeNull and consumes the same; no other array or blob string is a null.
C8_LegacyNull ==
    /\ (call.op = "Peek" /\ IsNull(prev)) => (ret.err = Nil /\ ret.t = TypeNull)
    /\ (call.op = "ReadNull" /\ IsNull(prev))
          => (ret.err = Nil /\ br = AfterNull(prev))
    /\ (call.op = "Discard" /\ IsNull(prev))
          => (ret.err = Nil /\ ret.t = TypeNull /\ br = AfterNull(prev))
    /\ (/\ call.op = "Peek"
        /\ prev # <<>>
        /\ prev[1] \in {TypeArray, TypeBlobString}
        /\ ~IsLegacyNull(prev))
          => (ret.err = Nil /\ ret.t = prev[1])
    /\ (call.op \in {"Discard", "ReadNull"} /\ ~IsNull(prev))
          => (ret.err # Nil \/ ret.t # TypeNull)
    /\ (call.op = "ReadNull" /\ ~IsNull(prev)) => ret.err # Nil

C8_Witness ==
    /\ call.op = "ReadNull"
    /\ IsLegacyNull(prev)
    /\ prev[1] = TypeArray
    /\ ret.err = Nil
    /\ Len(br) = 1

\* C9: on empty input every Read* call fails with ErrUnexpectedEOL while Peek
\* and Discard return io.EOF; on input that ends within a value, Discard never
\* returns io.EOF: it returns ErrUnexpectedEOL wherever the value is cut that
\* Discard(true) discards when it is whole.
C9_EndOfInput ==
    /\ (call.op \in ReadOps /\ prev = <<>>) => ret.err = ErrUnexpectedEOL
    /\ (call.op \in {"Peek", "Discard"} /\ prev = <<>>) => ret.err = EOF
    /\ (call.op = "Discard" /\ prev # <<>>)
          => ret.err \notin {EOF, ErrUnexpectedEOF}
    /\ (/\ call.op = "Discard"
        /\ call.nested
        /\ prev = src
        /\ Truncated
        /\ DiscardOp(hd.v.w, limit, TRUE).err = Nil)
          => ret.err = ErrUnexpectedEOL

\* C10: on every non-empty proper prefix of a well-formed value the matching
\* Read* call fails with ErrUnexpectedEOL.
C10_TruncatedIsEOL ==
    (First /\ 0 < hd.cut /\ hd.cut < hd.v.hl) => ret.err = ErrUnexpectedEOL

\* The 17 tags
Tags ==
    AggregateTypes \cup
    {TypeBigNumber, TypeBoolean, TypeDouble, TypeBlobChunk, TypeBlobError,
     TypeBlobString, TypeEnd, TypeNumber, TypeNull, TypeSimpleError,
     TypeSimpleString, TypeVerbatimString}

\* The kind of the value that the Read* call op reads
Expects(op) ==
    CASE op = "ReadArrayHeader" -> TypeArray
      [] op = "ReadAttributeHeader" -> TypeAttribute
      [] op = "ReadMapHeader" -> TypeMap
      [] op = "ReadPushHeader" -> TypePush
      [] op = "ReadSetHeader" -> TypeSet
      [] op = "ReadBigNumber" -> TypeBigNumber
      [] op \in {"ReadBlobChunk", "ReadBlobChunks"} -> TypeBlobChunk
      [] op = "ReadBlobError" -> TypeBlobError
      [] op = "ReadBlobString" -> TypeBlobString
      [] op = "ReadBoolean" -> TypeBoolean
      [] op = "ReadDouble" -> TypeDouble
      [] op = "ReadEnd" -> TypeEnd
      [] op = "ReadNull" -> TypeNull
      [] op = "ReadNumber" -> TypeNumber
      [] op = "ReadSimpleError" -> TypeSimpleError
      [] op = "ReadSimpleString" -> TypeSimpleString
      [] op = "ReadVerbatimString" -> TypeVerbatimString
      [] OTHER -> TypeInvalid

\* A Read* call found a lead byte that is not the tag of its kind
WrongLead == call.op \in ReadOps /\ prev # <<>> /\ prev[1] # Expects(call.op)

\* C11: a Read* call whose input starts with the tag of another kind fails
\* with ErrUnexpectedType, one whose input starts with a byte that is no tag
\* fails with ErrInvalidType, and in both cases it consumes nothing. (ReadNull
\* on the RESP2 nulls "*-1\r\n" and "$-1\r\n" is left out: it reads them.)
C11_LeadByte ==
    (WrongLead /\ ~(call.op = "ReadNull" /\ IsLegacyNull(prev))) =>
        /\ br = prev
        /\ ret.err = IF prev[1] \in Tags THEN ErrUnexpectedType ELSE ErrInvalidType

\* C12: Peek on input that starts with one of the 17 tags returns the kind
\* with that tag, and on input that starts with any other byte of 0..255 it
\* returns TypeInvalid with ErrInvalidType; no byte makes it panic. (Input
\* that starts with a RESP2 null is left out: Peek returns TypeNull for it.)
C12_LeadByteTable ==
    /\ Cardinality(Tags) = 17
    /\ (call.op = "Peek" /\ prev # <<>> /\ ~IsLegacyNull(prev)) =>
          IF prev[1] \in Tags THEN ret.err = Nil /\ ret.t = prev[1]
          ELSE ret.err = ErrInvalidType /\ ret.t = TypeInvalid

\* The errors of the package, and io.EOF
Sentinels ==
    {ErrSingleReadSizeLimitExceeded, ErrInvalidAggregateTypeLength,
     ErrInvalidBigNumber, ErrInvalidBlobLength, ErrInvalidBoolean,
     ErrInvalidDouble, ErrInvalidNumber, ErrInvalidSimpleValue, ErrInvalidType,
     ErrInvalidVerbatimString, ErrOverflow, ErrUnexpectedEOL, ErrUnexpectedType,
     EOF}

\* C13: whatever the input and the limit, a call of Peek, Discard or Read*
\* returns: without an error, or with an error of the package or io.EOF.
C13_NoPanic ==
    call.op \in ReadOps \cup {"Peek", "Discard"} =>
        ret.err \in Sentinels \cup {Nil}

\* The first call, on a line that holds the text hd.lit after the tag t
FirstOnLine(t) == prev = src /\ hd.v.op = "line" /\ hd.v.t = t

\* The text c is decimal digits; is a negative number; is no number and not
\* empty (the stream marker "?" is no count)
Digits(c) == c # <<>> /\ \A i \in 1..Len(c) : IsDigit(c[i])
Negative(c) ==
    /\ Len(c) > 1
    /\ c[1] = Minus
    /\ Digits(Tail(c))
    /\ StripZeros(Tail(c)) # <<Digit0>>
NotDecimal(c) == \E i \in 1..Len(c) : ~IsDigit(c[i]) /\ ~(i = 1 /\ c[i] = Minus)
NonNumeric(c) == c # <<Question>> /\ NotDecimal(c)

\* C14: an aggregate header "<tag><n>\r\n" with n >= 0 reads as (n, false,
\* nil) and "<tag>?\r\n" as (-1, true, nil); a negative count and a count
\* that is no number fail with ErrInvalidAggregateTypeLength; every failure
\* returns the count 0 and chunked = false.
C14_AggregateHeader ==
    \A t \in AggregateTypes :
        call.op = HeaderOp(t) =>
            /\ ret.err # Nil => (ret.n = I64Zero /\ ~ret.flag)
            /\ FirstOnLine(t) =>
                  /\ Digits(hd.lit) =>
                        /\ ret.err = Nil
                        /\ ~ret.flag
                        /\ FormatInt(ret.n) = StripZeros(hd.lit)
                        /\ br = hd.tr
                  /\ hd.lit = <<Question>> =>
                        /\ ret.err = Nil
                        /\ ret.flag
                        /\ ret.n = Neg(I64(1))
                        /\ br = hd.tr
                  /\ (Negative(hd.lit) \/ NonNumeric(hd.lit)) =>
                        ret.err = ErrInvalidAggregateTypeLength

\* The header calls of the Writer and their tags
HeaderWrites ==
    {[op |-> "WriteArrayHeader", t |-> TypeArray],
     [op |-> "WriteAttributeHeader", t |-> TypeAttribute],
     [op |-> "WriteMapHeader", t |-> TypeMap],
     [op |-> "WritePushHeader", t |-> TypePush],
     [op |-> "WriteSetHeader", t |-> TypeSet]}
StreamHeaderWrites ==
    {[op |-> "WriteArrayStreamHeader", t |-> TypeArray],
     [op |-> "WriteAttributeStreamHeader", t |-> TypeAttribute],
     [op |-> "WriteMapStreamHeader", t |-> TypeMap],
     [op |-> "WritePushStreamHeader", t |-> TypePush],
     [op |-> "WriteSetStreamHeader", t |-> TypeSet]}
SimpleWrites ==
    {[op |-> "WriteSimpleError", t |-> TypeSimpleError],
     [op |-> "WriteSimpleString", t |-> TypeSimpleString]}

\* The call was refused with err and nothing reached the sink
RefusedWith(err) == ret.err = err /\ out = prev /\ ret.b = <<>>

\* The call succeeded and the sink grew by w and by nothing else
Emitted(w) == ret.err = Nil /\ out = prev \o w /\ ret.b = w

StreamedWhole == hd.v.op = "chunks" /\ (limit <= 0 \/ hd.k <= limit)

\* C17: on a streamed blob, ReadBlobString and ReadBlobError consume the
\* marker "<tag>?\r\n" and return chunked = true and the destination as it
\* was; ReadBlobChunks(dst) called next returns dst followed by the chunks in
\* their order and consumes them and the chunk ";0\r\n" after them.
C17_ChunkedBlob ==
    StreamedWhole =>
        /\ (prev = src /\ call.op = HeaderOp(hd.v.t)) =>
              /\ ret.err = Nil
              /\ ret.flag
              /\ ret.b = call.dst
              /\ br = Drop(src, 4)
        /\ (prev = Drop(src, 4) /\ call.op = "ReadBlobChunks") =>
              /\ ret.err = Nil
              /\ ret.b = call.dst \o hd.lit
              /\ br = hd.tr

C17_Witness ==
    /\ StreamedWhole
    /\ prev = Drop(src, 4)
    /\ call.op = "ReadBlobChunks"
    /\ call.dst # <<>>
    /\ hd.lit = <<LetterA, LetterT, Colon>>
    /\ ret.b = call.dst \o hd.lit
    /\ br = WriteNull.w

\* C18: a call of ReadBlobChunk that succeeds returns last = true if and only
\* if it appended nothing, and then it consumed the four bytes of the chunk
\* header and nothing else.
C18_LastChunk ==
    (call.op = "ReadBlobChunk" /\ ret.err = Nil) =>
        /\ ret.flag <=> ret.b = call.dst
        /\ ret.flag => br = Drop(prev, 4)

C20_Signs ==
    /\ (call.op = "ReadNumber" /\ FirstOnLine(TypeNumber)) =>
          IF hd.lit \in {<<>>, <<Minus>>} THEN ret.err = ErrUnexpectedEOL
          ELSE IF NotDecimal(hd.lit) THEN ret.err = ErrInvalidNumber
          ELSE ret.err = Nil /\ FormatInt(ret.n) = Canonical(hd.lit)
    /\ (/\ call.op = "ReadBigNumber"
        /\ FirstOnLine(TypeBigNumber)
        /\ hd.lit # <<>>
        /\ limit <= 0 \/ Len(hd.lit) <= limit) =>
          LET d == IF hd.lit[1] \in {Plus, Minus} THEN Tail(hd.lit) ELSE hd.lit
          IN  IF Digits(d)
              THEN /\ ret.err = Nil
                   /\ ret.b = IF hd.lit[1] = Minus /\ StripZeros(d) # <<Digit0>>
                              THEN <<Minus>> \o StripZeros(d)
                              ELSE StripZeros(d)
              ELSE ret.err = ErrInvalidBigNumber

C20_Witness ==
    /\ FirstOnLine(TypeBigNumber)
    /\ call.op = "ReadBigNumber"
    /\ hd.lit = <<Plus, Digit1>>
    /\ ret.err = Nil
    /\ ret.b = <<Digit1>>
    /\ br = hd.tr

\* The call read from the bytes that follow the whole first value
Second == prev = hd.tr /\ prev # src /\ hd.cut = Len(hd.v.w \o hd.tr)

\* C23: the Read* call that matches the value at the head of the input
\* succeeds and consumes the bytes of that item and nothing after it (of an
\* aggregate and of a streamed blob the header line only), and the read of
\* the number that follows the value then returns that number.
C23_Sequential ==
    /\ (First /\ Whole) => (ret.err = Nil /\ br = Drop(src, hd.v.hl))
    /\ (Second /\ call.op = "ReadNumber" /\ hd.tr = WriteNumber(I64(7)).w)
          => (ret.err = Nil /\ ret.n = I64(7) /\ br = <<>>)

\* Discard(true) was called on a streamed aggregate "<tag>?\r\n" ... at the
\* head of the source
OnStreamed ==
    /\ call.op = "Discard"
    /\ call.nested
    /\ prev = src
    /\ hd.v.t \in AggregateTypes
    /\ hd.v.hl = 4
    /\ hd.v.w[2] = Question

\* C24: Discard(true) on a streamed aggregate discards the values up to the
\* End that closes this aggregate and succeeds, an End that closes a nested
\* streamed aggregate does not close the outer one; if the input ends after
\* the header and before the closing End, Discard fails with
\* ErrUnexpectedEOL.
C24_ChunkedAggregate ==
    /\ (OnStreamed /\ Whole)
          => (ret.err = Nil /\ ret.t = hd.v.t /\ br = hd.tr)
    /\ (OnStreamed /\ Truncated /\ hd.cut >= 4) => ret.err = ErrUnexpectedEOL

\* Discard(true) was called on the header of an aggregate with a count of
\* digits that is alone in the source or followed by hd.tr, which is no value
OnFixed ==
    /\ call.op = "Discard"
    /\ call.nested
    /\ prev = src
    /\ hd.v.op = "line"
    /\ hd.v.t \in AggregateTypes
    /\ Digits(hd.lit)

\* C25: Discard(true) on an aggregate header with the count n discards n
\* values (2n after the header of a map or an attribute), for every n >= 0
\* up to 2^63-1: with n = 0 it succeeds and consumes the header only, with
\* n > 0 and no value after the header it fails, with ErrUnexpectedEOL when
\* nothing follows the header; it never succeeds with fewer values
\* discarded.
C25_FixedCount ==
    OnFixed =>
        IF StripZeros(hd.lit) = <<Digit0>>
        THEN ret.err = Nil /\ ret.t = hd.v.t /\ br = hd.tr
        ELSE ret.err # Nil /\ (hd.tr = <<>> => ret.err = ErrUnexpectedEOL)

\* Discard(false) was called on the whole value at the head of the source
Shallow == call.op = "Discard" /\ ~call.nested /\ Whole

\* The value is a streamed blob "<tag>?\r\n" with its chunks
IsStreamedBlob ==
    /\ hd.v.t \in {TypeBlobString, TypeBlobError}
    /\ hd.v.hl = 4
    /\ hd.v.w[2] = Question

\* The length of the first chunk ";<k>\r\n<k bytes>\r\n" of the value (k is
\* one digit), or of the terminal chunk ";0\r\n"
FirstChunk ==
    IF hd.v.w[2] = Digit0 THEN 4 ELSE 4 + (hd.v.w[2] - Digit0) + 2

\* C26: Discard(false) consumes the outermost item only: of an aggregate the
\* header line, of a streamed blob the marker "<tag>?\r\n", of a chunk that
\* one chunk, terminal or not; the elements and the chunks that follow stay
\* unread.
C26_Shallow ==
    Shallow =>
        /\ hd.v.t \in AggregateTypes =>
              (ret.err = Nil /\ ret.t = hd.v.t /\ br = Drop(src, hd.v.hl))
        /\ IsStreamedBlob =>
              (ret.err = Nil /\ ret.t = hd.v.t /\ br = Drop(src, 4))
        /\ hd.v.t = TypeBlobChunk =>
              /\ ret.err = Nil
              /\ ret.t = TypeBlobChunk
              /\ br = Drop(src, FirstChunk)

C26_Witness ==
    /\ Shallow
    /\ IsStreamedBlob
    /\ ret.err = Nil
    /\ Len(br) > 4
    /\ br[1] = TypeBlobChunk

\* The reads that take the slice to append to
BufferReads ==
    {"ReadBlobString", "ReadBlobError", "ReadBlobChunk", "ReadBlobChunks",
     "ReadSimpleString", "ReadSimpleError", "ReadVerbatimString"}

\* C28: a read that takes a slice dst returns, when it succeeds, dst followed
\* by the payload it decoded (a verbatim string: dst followed by the whole
\* payload), the bytes of dst unchanged; when it fails it returns nil.
C28_Append ==
    (call.op \in BufferReads /\ pc = "idle") =>
        IF ret.err = Nil
        THEN /\ Len(ret.b) >= Len(call.dst)
             /\ Take(ret.b, Len(call.dst)) = call.dst
             /\ (prev = src /\ hd.v.op = "payload") => ret.b = call.dst \o hd.lit
        ELSE ret.b = <<>>

\* The read of the value that is one line after the tag t
LineOp(t) ==
    CASE t = TypeSimpleString -> "ReadSimpleString"
      [] t = TypeSimpleError -> "ReadSimpleError"
      [] t = TypeBigNumber -> "ReadBigNumber"
      [] t = TypeDouble -> "ReadDouble"
      [] t = TypeBoolean -> "ReadBoolean"

\* The source is a tag and the bytes hd.lit, and the read of that tag was
\* called on it
OnBytes == prev = src /\ hd.v.op = "bytes" /\ call.op = LineOp(hd.v.t)

\* Where the first LF is in the bytes after the tag, 0 if there is none
FirstLF == IndexByte(hd.lit, LF)

\* C30: a read of a value that is one line ends at the first LF: with no LF
\* it fails; with an LF that has no CR before it, a lone LF too, it fails
\* with ErrUnexpectedEOL (a line over the limit with
\* ErrSingleReadSizeLimitExceeded); otherwise the line is the bytes before
\* the CRLF, CR among them allowed, the simple reads return it appended to
\* dst, the others parse it, and the bytes after the LF are left.
C30_LineFraming ==
    OnBytes =>
        IF FirstLF = 0 THEN ret.err # Nil
        ELSE IF limit > 0 /\ FirstLF - 2 > limit
        THEN ret.err = ErrSingleReadSizeLimitExceeded
        ELSE IF FirstLF = 1 \/ hd.lit[FirstLF - 1] # CR
        THEN ret.err = ErrUnexpectedEOL
        ELSE /\ ret.err = Nil => br = Drop(hd.lit, FirstLF)
             /\ call.op \in BufferReads =>
                   /\ ret.err = Nil
                   /\ ret.b = call.dst \o Take(hd.lit, FirstLF - 2)
             /\ ret.err \in {Nil, ErrUnexpectedEOL, ErrInvalidBigNumber,
                             ErrInvalidDouble, ErrInvalidBoolean}
             /\ ret.err = ErrUnexpectedEOL => FirstLF = 2

\* The source is the tag of a simple value and a line of hd.k bytes, with
\* its CRLF (hd.tr) or without, and the read of that tag was called on it
OnFragments ==
    prev = src /\ hd.v.op = "fragments" /\ call.op = HeaderOp(hd.v.t)

\* The length of the line after the tag, and how much of it readLine has
\* accumulated after the i-th fragment
LineLen == Len(hd.lit \o hd.tr)
Frag(i) == IF i * BufSize < LineLen THEN i * BufSize ELSE LineLen

\* The fragments that ReadSlice returns (a full buffer, or the rest of the
\* line up to its LF) after which the length accumulated, less the two bytes
\* of the CRLF, is over the limit
Over ==
    {i \in 1..(LineLen \div BufSize + 1) :
        /\ Frag(i) > (i - 1) * BufSize
        /\ Frag(i) = i * BufSize \/ hd.tr = CRLF
        /\ Frag(i) - 2 > EffectiveLimit}
FirstOver == CHOOSE i \in Over : \A j \in Over : i <= j

C27_SkipEquivalent ==
    (call.op = "Discard" /\ call.nested /\ pc = "idle") =>
        LET d == discard(prev, limit)
        IN  /\ (ret.err = Nil) <=> (d.err = Nil)
            /\ ret.err = Nil => br = d.rest

\* C21: after Reset(r) the Reader reads the bytes of r from the first one on,
\* in their order, and none of the bytes that were unread before; Reset
\* leaves SingleReadSizeLimit as it is; so after any Resets with readers and
\* with *bufio.Readers.
C21_Reset ==
    /\ [](\E n \in 0..Len(src) : br = Drop(src, n))
    /\ [][(call'.op = "Reset" /\ hd'.k # hd.k)
             => (src' = call'.dst /\ br' = call'.dst /\ limit' = limit)]_vars

C21_Witness ==
    /\ call.op = "Reset"
    /\ ~call.bufio
    /\ hd.k = MaxResets
    /\ ~ownbr.nil
    /\ prev # <<>>
    /\ br = WriteEnd.w
    /\ limit = 1

====
